---- MODULE Spec2Model ----
(***************************************************************************)
(* The Hantek DSO control engine (HantekDsoControl): the settings store,    *)
(* the samplerate solver, the pending-command registry and the periodic     *)
(* run() loop, as a state machine.                                          *)
(*                                                                          *)
(* Rates and durations are exact rationals [n |-> numerator, d |-> denom].  *)
(* All inputs are chosen so that every product stays inside TLC's 32-bit    *)
(* integers; TLC stops with an error on overflow, it never wraps silently.  *)
(***************************************************************************)
EXTENDS Integers, Sequences, FiniteSets, TLC

VARIABLES
    usb,    \* the USBDevice: model id, connection state, packet size
    dso,    \* the HantekDsoControl object: settings, pending flags, loop state
    tick,   \* the position of run() inside the current tick, and what it did
    lastCall \* the last call of a function under study: arguments and results

vars == <<usb, dso, tick, lastCall>>

----------------------------------------------------------------------------
(* Bounds of the model *)

\* Transport calls that fail in one behaviour.
MaxFaults == 2
\* Transport failures in the behaviours that vary the samplerate settings.
MaxIntervalFaults == 1
\* The device answers CAPTURE_WAITING only while cycleCounter is below this.
MaxWaitTicks == 2
\* The device triggers before cycleCounter passes this, where forceTrigger()
\* is called as well.
MaxForceTicks == 12
\* The highest value given to calculateTriggerPoint: every 16-bit value.
MaxTriggerValue == 65535

----------------------------------------------------------------------------
(* Constants of the program *)

HANTEK_CHANNELS == 2
HANTEK_SPECIAL_CHANNELS == 2

\* Stands for (unsigned int)-1 = 0xFFFFFFFF, the unbounded record length.  TLC's
\* integers end at 2^31-1; the model only compares with it, divides by it and
\* saturates products at it, and every finite quantity stays far below both.
UINT_MAX == 2147483647

\* enum BulkCode
BULK_SETTRIGGERANDSAMPLERATE == 1
BULK_FORCETRIGGER == 2
BULK_STARTSAMPLING == 3
BULK_ENABLETRIGGER == 4
BULK_GETDATA == 5
BULK_GETCAPTURESTATE == 6
BULK_SETGAIN == 7
BULK_BSETCHANNELS == 11
BULK_CSETTRIGGERORSAMPLERATE == 12
BULK_DSETBUFFER == 13
BULK_ESETTRIGGERORSAMPLERATE == 14
BULK_FSETBUFFER == 15
BULK_COUNT == 16
\* (BulkCode)-1: no command bound
BULK_NONE == -1

\* enum ControlIndex
CONTROLINDEX_SETOFFSET == 0
CONTROLINDEX_SETRELAYS == 1
CONTROLINDEX_SETVOLTDIV_CH1 == 2
CONTROLINDEX_SETVOLTDIV_CH2 == 3
CONTROLINDEX_SETTIMEDIV == 4
CONTROLINDEX_ACQUIIRE_HARD_DATA == 5
CONTROLINDEX_COUNT == 6

\* getSamples: the 6022BE drops samples at the head and the tail of a frame
DROP_DSO6022_HEAD == 1040
DROP_DSO6022_TAIL == 1008

\* enum RollState
ROLL_STARTSAMPLING == 0
ROLL_ENABLETRIGGER == 1
ROLL_FORCETRIGGER == 2
ROLL_GETDATA == 3
ROLL_COUNT == 4

\* libusb return codes
LIBUSB_SUCCESS == 0
LIBUSB_ERROR_IO == -1
LIBUSB_ERROR_INVALID_PARAM == -2
LIBUSB_ERROR_NO_DEVICE == -4

Models == {"DSO2090", "DSO2150", "DSO2250", "DSO5200", "DSO5200A",
           "DSO6022BE", "UNKNOWN"}

TriggerModes == {"TRIGGERMODE_AUTO", "TRIGGERMODE_NORMAL", "TRIGGERMODE_SINGLE"}

\* enum CaptureState
CAPTURE_WAITING == 0
CAPTURE_SAMPLING == 1
CAPTURE_READY == 2
CAPTURE_READY2250 == 3
CAPTURE_READY5200 == 7

CaptureStates == {CAPTURE_WAITING, CAPTURE_SAMPLING, CAPTURE_READY,
                  CAPTURE_READY2250, CAPTURE_READY5200}

Channels == 0 .. HANTEK_CHANNELS - 1
BulkCodes == 0 .. BULK_COUNT - 1
ControlIndices == 0 .. CONTROLINDEX_COUNT - 1

Rat(n, d) == [n |-> n, d |-> d]
Zero == Rat(0, 1)

----------------------------------------------------------------------------
(* The model specification table: HantekDsoControl::HantekDsoControl *)

\* specification.command.bulk.*: which bulk command carries which setting
CommandBinding(model) ==
    CASE model \in {"DSO2090", "DSO2150"} ->
           [setRecordLength |-> BULK_SETTRIGGERANDSAMPLERATE,
            setChannels     |-> BULK_SETTRIGGERANDSAMPLERATE,
            setSamplerate   |-> BULK_SETTRIGGERANDSAMPLERATE,
            setTrigger      |-> BULK_SETTRIGGERANDSAMPLERATE,
            setPretrigger   |-> BULK_SETTRIGGERANDSAMPLERATE]
      [] model = "DSO2250" ->
           [setRecordLength |-> BULK_DSETBUFFER,
            setChannels     |-> BULK_BSETCHANNELS,
            setSamplerate   |-> BULK_ESETTRIGGERORSAMPLERATE,
            setTrigger      |-> BULK_CSETTRIGGERORSAMPLERATE,
            setPretrigger   |-> BULK_FSETBUFFER]
      [] model \in {"DSO5200", "DSO5200A"} ->
           [setRecordLength |-> BULK_DSETBUFFER,
            setChannels     |-> BULK_ESETTRIGGERORSAMPLERATE,
            setSamplerate   |-> BULK_CSETTRIGGERORSAMPLERATE,
            setTrigger      |-> BULK_ESETTRIGGERORSAMPLERATE,
            setPretrigger   |-> BULK_ESETTRIGGERORSAMPLERATE]
      [] OTHER ->
           [setRecordLength |-> BULK_NONE,
            setChannels     |-> BULK_NONE,
            setSamplerate   |-> BULK_NONE,
            setTrigger      |-> BULK_NONE,
            setPretrigger   |-> BULK_NONE]

\* commandPending[] as the constructor leaves it
InitialCommandPending(model) ==
    [c \in BulkCodes |->
        CASE model \in {"DSO2090", "DSO2150"} ->
               c = BULK_SETTRIGGERANDSAMPLERATE
          [] model = "DSO2250" ->
               c \in {BULK_BSETCHANNELS, BULK_CSETTRIGGERORSAMPLERATE,
                      BULK_DSETBUFFER, BULK_ESETTRIGGERORSAMPLERATE,
                      BULK_FSETBUFFER}
          [] model \in {"DSO5200", "DSO5200A"} ->
               c \in {BULK_CSETTRIGGERORSAMPLERATE, BULK_DSETBUFFER,
                      BULK_ESETTRIGGERORSAMPLERATE}
          [] OTHER -> FALSE]

\* controlPending[] as the constructor leaves it
InitialControlPending(model) ==
    [i \in ControlIndices |->
        CASE model \in {"DSO2090", "DSO2150", "DSO2250", "DSO5200", "DSO5200A"} ->
               i <= CONTROLINDEX_SETRELAYS
          [] model = "DSO6022BE" ->
               i \notin {CONTROLINDEX_SETOFFSET, CONTROLINDEX_SETRELAYS}
          [] OTHER -> FALSE]

\* specification.samplerate.single
SingleLimits(model) ==
    CASE model \in {"DSO5200", "DSO5200A"} ->
           [base |-> 100000000, max |-> 125000000, maxDownsampler |-> 131072,
            recordLengths |-> <<UINT_MAX, 10240, 14336>>]
      [] model = "DSO2250" ->
           [base |-> 100000000, max |-> 100000000, maxDownsampler |-> 65536,
            recordLengths |-> <<UINT_MAX, 10240, 524288>>]
      [] model = "DSO2150" ->
           [base |-> 50000000, max |-> 75000000, maxDownsampler |-> 131072,
            recordLengths |-> <<UINT_MAX, 10240, 32768>>]
      [] model = "DSO6022BE" ->
           [base |-> 1000000, max |-> 48000000, maxDownsampler |-> 10,
            recordLengths |-> <<UINT_MAX, 10240>>]
      [] model = "DSO2090" ->
           [base |-> 50000000, max |-> 50000000, maxDownsampler |-> 131072,
            recordLengths |-> <<UINT_MAX, 10240, 32768>>]
      [] OTHER ->   \* unknown model: the constructor returns before the table
           [base |-> 50000000, max |-> 50000000, maxDownsampler |-> 0,
            recordLengths |-> <<0>>]

\* specification.samplerate.multi
MultiLimits(model) ==
    CASE model \in {"DSO5200", "DSO5200A"} ->
           [base |-> 200000000, max |-> 250000000, maxDownsampler |-> 131072,
            recordLengths |-> <<UINT_MAX, 20480, 28672>>]
      [] model = "DSO2250" ->
           [base |-> 200000000, max |-> 250000000, maxDownsampler |-> 65536,
            recordLengths |-> <<UINT_MAX, 20480, 1048576>>]
      [] model = "DSO2150" ->
           [base |-> 100000000, max |-> 150000000, maxDownsampler |-> 131072,
            recordLengths |-> <<UINT_MAX, 20480, 65536>>]
      [] model = "DSO6022BE" ->
           [base |-> 1000000, max |-> 48000000, maxDownsampler |-> 10,
            recordLengths |-> <<UINT_MAX, 20480>>]
      [] model = "DSO2090" ->
           [base |-> 100000000, max |-> 100000000, maxDownsampler |-> 131072,
            recordLengths |-> <<UINT_MAX, 20480, 65536>>]
      [] OTHER ->
           [base |-> 100000000, max |-> 100000000, maxDownsampler |-> 0,
            recordLengths |-> <<0>>]

\* specification.bufferDividers
BufferDividers(model) ==
    IF model = "UNKNOWN" THEN <<>> ELSE <<1000, 1, 1>>

\* specification.sampleSteps / sampleDiv (6022BE only)
SampleSteps == <<100000, 200000, 500000, 1000000, 2000000, 4000000,
                 8000000, 16000000, 24000000, 48000000>>
SampleDiv == <<10, 20, 50, 1, 2, 4, 8, 16, 24, 48>>

\* The limits a rate mode selects: fastRate ? multi : single
Limits(fastRate) ==
    IF fastRate THEN MultiLimits(usb.model) ELSE SingleLimits(usb.model)

\* settings.samplerate.limits->recordLengths
RecordLengths(d) == Limits(d.limitsMulti).recordLengths

\* settings.samplerate.limits->recordLengths[settings.recordLengthId]
RecordLength(d) == RecordLengths(d)[d.recordLengthId + 1]

\* specification.bufferDividers[settings.recordLengthId]
Divider(d) == BufferDividers(usb.model)[d.recordLengthId + 1]

\* The defaults of ControlSettingsSamplerateTarget
TargetDefault ==
    [samplerate |-> Rat(100000000, 1), duration |-> Rat(1, 1000),
     samplerateSet |-> TRUE]

----------------------------------------------------------------------------
(* The command registry.  A setter writes a field of an encoder's buffer and  *)
(* sets the companion pending flag.  written and fails are history fields:     *)
(* written[c]: a field of c was written since c was last transmitted;         *)
(* fails[c]: the failed writes of c since it was last marked pending.         *)

\* command[c]->setX(...): a field of bulk command c is written
WriteBulk(d, c) == [d EXCEPT !.commandWritten[c] = TRUE]

\* commandPending[c] = true
PendBulk(d, c) ==
    [d EXCEPT !.commandPending[c] = TRUE,
              !.commandFails[c] = 0]

\* control[i]->setX(...): a field of control command i is written
WriteControl(d, i) == [d EXCEPT !.controlWritten[i] = TRUE]

\* controlPending[i] = true
PendControl(d, i) ==
    [d EXCEPT !.controlPending[i] = TRUE,
              !.controlFails[i] = 0]

----------------------------------------------------------------------------
(* HantekDsoControl::setPretriggerPosition.  position is in microseconds. *)

\* The bulk command whose buffer receives the trigger position
PretriggerWrites(model) ==
    CASE CommandBinding(model).setPretrigger = BULK_SETTRIGGERANDSAMPLERATE ->
           BULK_SETTRIGGERANDSAMPLERATE
      [] CommandBinding(model).setPretrigger = BULK_FSETBUFFER ->
           BULK_FSETBUFFER
      [] CommandBinding(model).setPretrigger = BULK_ESETTRIGGERORSAMPLERATE ->
           BULK_DSETBUFFER
      [] OTHER -> BULK_NONE

\* A setter that marks the bound command, not the one it wrote
PretriggerPendsBound(model) == CommandBinding(model).setPretrigger

\* The bulk command setPretriggerPosition marks pending
PretriggerPends(model) ==
    CASE CommandBinding(model).setPretrigger = BULK_SETTRIGGERANDSAMPLERATE ->
           BULK_SETTRIGGERANDSAMPLERATE
      [] CommandBinding(model).setPretrigger = BULK_FSETBUFFER ->
           BULK_FSETBUFFER
      [] CommandBinding(model).setPretrigger = BULK_ESETTRIGGERORSAMPLERATE ->
           BULK_DSETBUFFER
      [] OTHER -> BULK_NONE

SetPretriggerPosition(d, position) ==
    IF ~usb.connected THEN d
    ELSE IF PretriggerWrites(usb.model) = BULK_NONE THEN d   \* ERROR_UNSUPPORTED
    ELSE [PendBulk(WriteBulk(d, PretriggerWrites(usb.model)),
                   PretriggerPends(usb.model))
            EXCEPT !.triggerPosition = position]

----------------------------------------------------------------------------
(* HantekDsoControl::getBestSamplerate.  samplerate is a rational in Hz.      *)
(* bestDownsampler = base / divider / samplerate = (B * samplerate.d) /       *)
(* samplerate.n with B = base / divider (exact for every table entry).        *)

\* A 2090 family that takes every integer factor
EveryFactor2090(q, exact, maximum) ==
    IF maximum THEN (IF exact THEN q ELSE q + 1) ELSE q

\* The 2090 family: factors 1, 2, 5 by samplerate id, even factors above.
\* q = floor(bestDownsampler), exact = bestDownsampler is an integer.
BestDownsampler2090(q, exact, maximum) ==
    IF (maximum /\ (q < 5 \/ (q = 5 /\ exact))) \/ (~maximum /\ q < 6)
    THEN \* valueFast is used
         IF maximum
         THEN LET up == IF exact THEN q ELSE q + 1
              IN  IF up > 2 THEN 5 ELSE up
         ELSE IF q > 2 /\ q < 5 THEN 2 ELSE q
    ELSE \* valueSlow is used
         LET even == IF maximum
                     THEN (IF exact /\ q % 2 = 0 THEN q \div 2
                                                 ELSE q \div 2 + 1) * 2
                     ELSE (q \div 2) * 2
         IN  IF even > 2 * 65537 THEN 2 * 65537 ELSE even

\* Solvers that ignore the direction: always the ceiling, always the floor
RoundUpInteger(q, exact, maximum) == IF exact THEN q ELSE q + 1

RoundDownInteger(q, exact, maximum) == q

\* The 5200 and 2250 families: every integer factor
BestDownsamplerInteger(q, exact, maximum) ==
    IF maximum THEN (IF exact THEN q ELSE q + 1) ELSE q

\* A solver without the limit
UnlimitedDownsampler(bestDownsampler, limits) == bestDownsampler

\* if (bestDownsampler > limits->maxDownsampler)
\*     bestDownsampler = limits->maxDownsampler;
LimitDownsampler(bestDownsampler, limits) ==
    IF bestDownsampler > limits.maxDownsampler
    THEN limits.maxDownsampler ELSE bestDownsampler

\* Returns [rate, downsampler]; rate Zero is the error return 0.0, which leaves
\* the caller's downsampler (initialised to 0) untouched.
GetBestSamplerate(d, samplerate, fastRate, maximum) ==
    IF samplerate.n <= 0 THEN [rate |-> Zero, downsampler |-> 0]
    ELSE
    LET limits  == Limits(fastRate)
        B       == limits.base \div Divider(d)
        M       == limits.max \div Divider(d)
        num     == B * samplerate.d
        q       == num \div samplerate.n
        exact   == num % samplerate.n = 0
        family  == CommandBinding(usb.model).setSamplerate
    IN  IF num < samplerate.n /\ (samplerate.n <= M * samplerate.d \/ ~maximum)
        THEN [rate |-> Rat(M, 1), downsampler |-> 0]
        ELSE IF family = BULK_NONE
        THEN [rate |-> Zero, downsampler |-> 0]
        ELSE
        LET snapped == IF family = BULK_SETTRIGGERANDSAMPLERATE
                       THEN BestDownsampler2090(q, exact, maximum)
                       ELSE BestDownsamplerInteger(q, exact, maximum)
            best    == LimitDownsampler(snapped, limits)
        IN  [rate |-> Rat(B, best), downsampler |-> best]

----------------------------------------------------------------------------
(* HantekDsoControl::updateSamplerate *)

\* The 2090 encoder cannot express 3 and 4 and only even factors above 5
EncodableDownsampler(model, downsampler) ==
    IF CommandBinding(model).setSamplerate = BULK_SETTRIGGERANDSAMPLERATE
    THEN IF downsampler <= 5
         THEN (IF downsampler <= 2 THEN downsampler ELSE 5)
         ELSE downsampler - (downsampler % 2)
    ELSE downsampler

\* A word computed from the factor itself, not from its half
WholeDownsamplerValue(downsampler) == (65537 - downsampler) % 65536

\* downsamplerValue = (short int)(0x10001 - (downsampler >> 1))
DownsamplerValue(downsampler) == (65537 - (downsampler \div 2)) % 65536

\* The samplerate fields updateSamplerate hands to the command encoders.
\* A 16-bit field holds its two's complement pattern, 0 .. 65535.
SamplerateFields(model, downsampler, limits) ==
    CASE CommandBinding(model).setSamplerate = BULK_SETTRIGGERANDSAMPLERATE ->
           IF downsampler <= 5
           THEN IF downsampler = 0 /\ limits.base >= limits.max
                THEN [samplerateId |-> 1, downsamplingMode |-> FALSE,
                      downsampler |-> 0]
                ELSE IF downsampler <= 2
                THEN [samplerateId |-> downsampler, downsamplingMode |-> FALSE,
                      downsampler |-> 0]
                ELSE [samplerateId |-> 3, downsamplingMode |-> FALSE,
                      downsampler |-> 65535]          \* (short int)0xffff
           ELSE [samplerateId |-> 0, downsamplingMode |-> TRUE,
                 downsampler |-> DownsamplerValue(downsampler)]
      [] CommandBinding(model).setSamplerate = BULK_CSETTRIGGERORSAMPLERATE ->
           \* qMax(((long int)downsampler - 3) / 2, 0); valueFast is a byte
           LET valueSlow == IF downsampler <= 3 THEN 0
                            ELSE (downsampler - 3) \div 2
               valueFast == (downsampler - valueSlow * 2) % 256
           IN  [samplerateFast |-> 4 - valueFast,
                samplerateSlow |-> IF valueSlow = 0 THEN 0
                                   ELSE 65535 - valueSlow]
      [] CommandBinding(model).setSamplerate = BULK_ESETTRIGGERORSAMPLERATE ->
           [downsampling |-> downsampler >= 1,
            samplerate |-> IF downsampler > 1 THEN 65537 - downsampler ELSE 0]
      [] OTHER -> [unsupported |-> TRUE]

\* The bulk commands whose buffers updateSamplerate writes
SamplerateWrites(model) ==
    CASE CommandBinding(model).setSamplerate = BULK_SETTRIGGERANDSAMPLERATE ->
           {BULK_SETTRIGGERANDSAMPLERATE}
      [] CommandBinding(model).setSamplerate = BULK_CSETTRIGGERORSAMPLERATE ->
           {BULK_CSETTRIGGERORSAMPLERATE, BULK_ESETTRIGGERORSAMPLERATE}
      [] CommandBinding(model).setSamplerate = BULK_ESETTRIGGERORSAMPLERATE ->
           {BULK_ESETTRIGGERORSAMPLERATE}
      [] OTHER -> {}

\* The bulk commands updateSamplerate marks pending
SampleratePends(model) ==
    CASE CommandBinding(model).setSamplerate = BULK_SETTRIGGERANDSAMPLERATE ->
           {BULK_SETTRIGGERANDSAMPLERATE}
      [] CommandBinding(model).setSamplerate = BULK_CSETTRIGGERORSAMPLERATE ->
           {BULK_CSETTRIGGERORSAMPLERATE, BULK_ESETTRIGGERORSAMPLERATE}
      [] CommandBinding(model).setSamplerate = BULK_ESETTRIGGERORSAMPLERATE ->
           {BULK_ESETTRIGGERORSAMPLERATE}
      [] OTHER -> {}

\* Apply WriteBulk / PendBulk to a set of commands
WriteBulkAll(d, cs) ==
    [d EXCEPT !.commandWritten = [c \in BulkCodes |-> @[c] \/ c \in cs]]

PendBulkAll(d, cs) ==
    [d EXCEPT !.commandPending = [c \in BulkCodes |-> @[c] \/ c \in cs],
              !.commandFails = [c \in BulkCodes |-> IF c \in cs THEN 0 ELSE @[c]]]

UpdateSamplerate(d, downsampler, fastRate) ==
    IF SamplerateWrites(usb.model) = {} THEN d      \* returns UINT_MAX
    ELSE
    LET ds == EncodableDownsampler(usb.model, downsampler)
        d1 == PendBulkAll(WriteBulkAll(d, SamplerateWrites(usb.model)),
                          SampleratePends(usb.model))
        \* fastRateChanged: settings.samplerate.limits = limits
        d2 == [d1 EXCEPT !.limitsMulti = fastRate, !.downsampler = ds]
        d3 == [d2 EXCEPT !.current =
                   IF ds # 0
                   THEN Rat(Limits(fastRate).base \div Divider(d2), ds)
                   ELSE Rat(Limits(fastRate).max \div Divider(d2), 1)]
    IN  SetPretriggerPosition(d3, d3.triggerPosition)

----------------------------------------------------------------------------
(* HantekDsoControl::setSamplerate, setRecordTime, restoreTargets *)

\* a * b, saturating at UINT_MAX
SatMul(a, b) == IF a > UINT_MAX \div b THEN UINT_MAX ELSE a * b

\* setSamplerate, 6022BE: the index into sampleSteps
SampleIdFor(samplerate) ==
    LET hits == {i \in 1 .. Len(SampleSteps) - 1 :
                    samplerate.d = 1 /\ SampleSteps[i] = samplerate.n}
    IN  IF hits = {} THEN Len(SampleSteps)
        ELSE CHOOSE i \in hits : \A j \in hits : i <= j

\* setSamplerate: fast rate when at most one channel is used and the rate is
\* above the highest single channel rate
SamplerateFastRate(d, rate) ==
    d.usedChannels <= 1 /\
    rate.n > (SingleLimits(usb.model).max \div Divider(d)) * rate.d

\* samplerate = 0.0 (Zero) restores the stored target
SetSamplerate(d, samplerate) ==
    IF ~usb.connected THEN d
    ELSE
    LET rate == IF samplerate.n = 0 THEN d.target.samplerate ELSE samplerate
        d1   == IF samplerate.n = 0 THEN d
                ELSE [d EXCEPT !.target.samplerate = samplerate,
                               !.target.samplerateSet = TRUE]
    IN  IF usb.model # "DSO6022BE"
        THEN LET fastRate == SamplerateFastRate(d1, rate)
                 best == GetBestSamplerate(d1, rate, fastRate, FALSE)
             IN  UpdateSamplerate(d1, best.downsampler, fastRate)
        ELSE [PendControl(WriteControl(d1, CONTROLINDEX_SETTIMEDIV),
                          CONTROLINDEX_SETTIMEDIV)
                EXCEPT !.current = rate]

\* setRecordTime, 6022BE: the highest step that fills less than 10240 - 2000
\* samples in the duration
BestSampleId(duration) ==
    LET fits == {i \in 1 .. Len(SampleSteps) :
                    SampleSteps[i] * duration.n < (10240 - 2000) * duration.d}
    IN  IF fits = {} THEN 1 ELSE CHOOSE i \in fits : \A j \in fits : i >= j

\* duration = 0.0 (Zero) restores the stored target
SetRecordTime(d, duration) ==
    IF ~usb.connected THEN d
    ELSE
    LET dur == IF duration.n = 0 THEN d.target.duration ELSE duration
        d1  == IF duration.n = 0 THEN d
               ELSE [d EXCEPT !.target.duration = duration,
                              !.target.samplerateSet = FALSE]
    IN  IF usb.model # "DSO6022BE"
        THEN LET maxSamplerate ==
                     Rat(SatMul(SingleLimits(usb.model)
                                  .recordLengths[d1.recordLengthId + 1], dur.d),
                         dur.n)
                 fastRate == d1.usedChannels <= 1 /\
                             maxSamplerate.n \div maxSamplerate.d >=
                               MultiLimits(usb.model).base \div Divider(d1)
                 best == GetBestSamplerate(d1, maxSamplerate, fastRate, TRUE)
             IN  UpdateSamplerate(d1, best.downsampler, fastRate)
        ELSE [PendControl(WriteControl(d1, CONTROLINDEX_SETTIMEDIV),
                          CONTROLINDEX_SETTIMEDIV)
                EXCEPT !.current = Rat(SampleSteps[BestSampleId(dur)], 1)]

\* A restoreTargets() that solves nothing
KeepTargets(d) == d

\* A restoreTargets() that always solves for the record time
RestoreRecordTime(d) == SetRecordTime(d, Zero)

RestoreTargets(d) ==
    IF d.target.samplerateSet THEN SetSamplerate(d, Zero)
                              ELSE SetRecordTime(d, Zero)

----------------------------------------------------------------------------
(* HantekDsoControl::updateRecordLength, setRecordLength *)

\* The bulk command that carries the record length; BULK_NONE: return 0
RecordLengthCommand(model) ==
    IF CommandBinding(model).setRecordLength
         \in {BULK_SETTRIGGERANDSAMPLERATE, BULK_DSETBUFFER}
    THEN CommandBinding(model).setRecordLength
    ELSE BULK_NONE

\* updateRecordLength accepts the index
RecordLengthAccepted(d, index) ==
    /\ index < Len(RecordLengths(d))
    /\ RecordLengthCommand(usb.model) # BULK_NONE

UpdateRecordLength(d, index) ==
    IF ~RecordLengthAccepted(d, index) THEN d
    ELSE
    LET c  == RecordLengthCommand(usb.model)
        d1 == PendBulk(WriteBulk(d, c), c)
        bDividerChanged == BufferDividers(usb.model)[index + 1] # Divider(d)
        d2 == [d1 EXCEPT !.recordLengthId = index]
    IN  IF bDividerChanged THEN RestoreTargets(d2) ELSE d2

SetRecordLength(d, index) ==
    IF ~usb.connected THEN d
    ELSE IF ~RecordLengthAccepted(d, index) THEN d
    ELSE LET d1 == RestoreTargets(UpdateRecordLength(d, index))
         IN  SetPretriggerPosition(d1, d1.triggerPosition)

----------------------------------------------------------------------------
(* HantekDsoControl::setChannelUsed *)

\* The bulk command that carries the used-channels field, BULK_NONE if none
ChannelsCommand(model) ==
    IF CommandBinding(model).setChannels
         \in {BULK_SETTRIGGERANDSAMPLERATE, BULK_BSETCHANNELS,
              BULK_ESETTRIGGERORSAMPLERATE}
    THEN CommandBinding(model).setChannels
    ELSE BULK_NONE

\* A recount that stops after the first channel
ChannelCountFirst(used) == IF used[0] THEN 1 ELSE 0

\* The recount of the channels in use
ChannelCount(used) == Cardinality({c \in Channels : used[c]})

SetChannelUsed(d, channel, used) ==
    IF ~usb.connected THEN d                       \* ERROR_CONNECTION
    ELSE IF channel >= HANTEK_CHANNELS THEN d      \* ERROR_PARAMETER
    ELSE
    LET d1 == [d EXCEPT !.used[channel] = used]
        c  == ChannelsCommand(usb.model)
        d2 == IF c = BULK_NONE THEN d1 ELSE PendBulk(WriteBulk(d1, c), c)
    IN  \* updateSamplerateLimits() only emits samplerateLimitsChanged
        [d2 EXCEPT !.usedChannels = ChannelCount(d1.used)]

----------------------------------------------------------------------------
(* HantekDsoControl::setCoupling, setGain, setOffset, setTriggerLevel,        *)
(* setTriggerMode, setTriggerSource, setTriggerSlope, forceTrigger.           *)
(* The values of coupling, offset, level and slope are not part of the state. *)

SetCoupling(d, channel) ==
    IF ~usb.connected THEN d
    ELSE IF channel >= HANTEK_CHANNELS THEN d
    ELSE IF usb.model # "DSO6022BE"
    THEN PendControl(WriteControl(d, CONTROLINDEX_SETRELAYS),
                     CONTROLINDEX_SETRELAYS)
    ELSE d

SetTriggerLevel(d, channel) ==
    IF ~usb.connected THEN d
    ELSE IF channel >= HANTEK_CHANNELS THEN d
    ELSE IF ~d.triggerSpecial /\ channel = d.triggerSource
            /\ usb.model # "DSO6022BE"
    THEN PendControl(WriteControl(d, CONTROLINDEX_SETOFFSET),
                     CONTROLINDEX_SETOFFSET)
    ELSE d

\* A quantiser that adds 1.5 before truncating
OffsetValueAbove(offset, minimum, maximum) ==
    ((2 * offset.n * (maximum - minimum) + 3 * offset.d) \div (2 * offset.d)
       + minimum) % 65536

\* unsigned short int offsetValue =
\*     offset * (maximum - minimum) + minimum + 0.5;
\* The conversion truncates; minimum and maximum are the calibration values
\* after the conversion from big endian.
OffsetValue(offset, minimum, maximum) ==
    ((2 * offset.n * (maximum - minimum) + offset.d) \div (2 * offset.d)
       + minimum) % 65536

\* double offsetReal = (double)(offsetValue - minimum) / (maximum - minimum);
OffsetReal(offsetValue, minimum, maximum) ==
    Rat(offsetValue - minimum, maximum - minimum)

SetOffset(d, channel) ==
    IF ~usb.connected THEN d
    ELSE IF channel >= HANTEK_CHANNELS THEN d
    ELSE LET d1 == IF usb.model # "DSO6022BE"
                   THEN PendControl(WriteControl(d, CONTROLINDEX_SETOFFSET),
                                    CONTROLINDEX_SETOFFSET)
                   ELSE d
         IN  SetTriggerLevel(d1, channel)

\* specification.gainSteps, in units of 10 mV/div
GainSteps(model) ==
    CASE model \in {"DSO5200", "DSO5200A"} ->
           <<16, 40, 80, 160, 400, 800, 1600, 4000, 8000>>
      [] model = "UNKNOWN" -> <<>>
      [] OTHER -> <<8, 16, 40, 80, 160, 400, 800, 1600, 4000>>

\* The lowest gain step above the requested gain, else the last
GainIdAbove(model, gain) ==
    LET steps == GainSteps(model)
        hits  == {i \in 0 .. Len(steps) - 2 : steps[i + 1] > gain}
    IN  IF hits = {} THEN Len(steps) - 1
        ELSE CHOOSE i \in hits : \A j \in hits : i <= j

\* controlSetRelays->setBelow1V(channel, gainId < 3);
\* controlSetRelays->setBelow100mV(channel, gainId < 6);
GainRelays(gainId) == [below1V |-> gainId < 3, below100mV |-> gainId < 6]

\* The lowest gain step at least as high as the requested gain, else the last
GainIdFor(model, gain) ==
    LET steps == GainSteps(model)
        hits  == {i \in 0 .. Len(steps) - 2 : steps[i + 1] >= gain}
    IN  IF hits = {} THEN Len(steps) - 1
        ELSE CHOOSE i \in hits : \A j \in hits : i <= j

SetGain(d, channel, gain) ==
    IF ~usb.connected THEN d
    ELSE IF channel >= HANTEK_CHANNELS THEN d
    ELSE
    LET gainId == GainIdFor(usb.model, gain)
        d1 == IF usb.model = "DSO6022BE"
              THEN LET i == IF channel = 0 THEN CONTROLINDEX_SETVOLTDIV_CH1
                                           ELSE CONTROLINDEX_SETVOLTDIV_CH2
                   IN  PendControl(WriteControl(d, i), i)
              ELSE PendControl(
                     WriteControl(
                       PendBulk(WriteBulk(d, BULK_SETGAIN), BULK_SETGAIN),
                       CONTROLINDEX_SETRELAYS),
                     CONTROLINDEX_SETRELAYS)
    IN  SetOffset([d1 EXCEPT !.gain[channel] = gainId], channel)

SetTriggerMode(d, mode) ==
    IF ~usb.connected THEN d
    ELSE IF mode \notin TriggerModes THEN d        \* ERROR_PARAMETER
    ELSE [d EXCEPT !.triggerMode = mode]

\* The bulk command that carries trigger source and slope, BULK_NONE if none
TriggerCommand(model) ==
    IF CommandBinding(model).setTrigger
         \in {BULK_SETTRIGGERANDSAMPLERATE, BULK_CSETTRIGGERORSAMPLERATE,
              BULK_ESETTRIGGERORSAMPLERATE}
    THEN CommandBinding(model).setTrigger
    ELSE BULK_NONE

SetTriggerSource(d, special, id) ==
    IF ~usb.connected THEN d
    ELSE IF (~special /\ id >= HANTEK_CHANNELS)
            \/ (special /\ id >= HANTEK_SPECIAL_CHANNELS) THEN d
    ELSE IF TriggerCommand(usb.model) = BULK_NONE THEN d   \* ERROR_UNSUPPORTED
    ELSE
    LET c  == TriggerCommand(usb.model)
        d1 == PendBulk(WriteBulk(d, c), c)
        d2 == PendControl(WriteControl(d1, CONTROLINDEX_SETRELAYS),
                          CONTROLINDEX_SETRELAYS)
        d3 == [d2 EXCEPT !.triggerSpecial = special, !.triggerSource = id]
    IN  IF special
        THEN PendControl(WriteControl(d3, CONTROLINDEX_SETOFFSET),
                         CONTROLINDEX_SETOFFSET)
        ELSE SetTriggerLevel(d3, id)

SetTriggerSlope(d) ==
    IF ~usb.connected THEN d
    ELSE IF TriggerCommand(usb.model) = BULK_NONE THEN d   \* ERROR_UNSUPPORTED
    ELSE PendBulk(WriteBulk(d, TriggerCommand(usb.model)),
                  TriggerCommand(usb.model))

\* forceTrigger() has no connection check and writes no field
ForceTrigger(d) == PendBulk(d, BULK_FORCETRIGGER)

\* The slots of command[] that hold a command after the constructor; the
\* other slots are null
CommandSlots(model) ==
    {BULK_FORCETRIGGER, BULK_STARTSAMPLING, BULK_ENABLETRIGGER, BULK_GETDATA,
     BULK_GETCAPTURESTATE, BULK_SETGAIN}
    \cup CASE model \in {"DSO2090", "DSO2150"} ->
                 {BULK_SETTRIGGERANDSAMPLERATE}
            [] model = "DSO2250" ->
                 {BULK_BSETCHANNELS, BULK_CSETTRIGGERORSAMPLERATE,
                  BULK_DSETBUFFER, BULK_ESETTRIGGERORSAMPLERATE,
                  BULK_FSETBUFFER}
            [] model \in {"DSO5200", "DSO5200A"} ->
                 {BULK_CSETTRIGGERORSAMPLERATE, BULK_DSETBUFFER,
                  BULK_ESETTRIGGERORSAMPLERATE}
            [] OTHER -> {}

\* The indices of control[] and controlCode[] the constructor assigns; the
\* other entries are never initialised
ControlSlots(model) ==
    {CONTROLINDEX_SETOFFSET, CONTROLINDEX_SETRELAYS}
    \cup IF model = "DSO6022BE"
         THEN {CONTROLINDEX_SETVOLTDIV_CH1, CONTROLINDEX_SETVOLTDIV_CH2,
               CONTROLINDEX_SETTIMEDIV, CONTROLINDEX_ACQUIIRE_HARD_DATA}
         ELSE {}

\* A call that returned error and left d; "abort" stands for a call that did
\* not return
Returned(error, d) == [error |-> error, dso |-> d]

\* "send bulk <code> ...": if (commandCode > BULK_COUNT) return
\* ERROR_UNSUPPORTED; then command[commandCode] is dereferenced and
\* commandPending[commandCode] set.  command[BULK_COUNT] lies past the array
\* and an empty slot is a null pointer: the call aborts or goes on.
SendBulk(d, code) ==
    IF code > BULK_COUNT THEN {Returned("ERROR_UNSUPPORTED", d)}
    ELSE IF code = BULK_COUNT
    THEN {Returned("abort", d), Returned("ERROR_NONE", d)}
    ELSE IF code \notin CommandSlots(usb.model)
    THEN {Returned("abort", d), Returned("ERROR_NONE", PendBulk(d, code))}
    ELSE {Returned("ERROR_NONE", PendBulk(WriteBulk(d, code), code))}

\* "send control <code> ...": code is the index whose control code the
\* request names, CONTROLINDEX_COUNT for a code of no index.  The loop
\* compares with every controlCode[] entry up to the first match; an entry
\* that was never initialised may match, and its control[] pointer is
\* indeterminate.
SendControl(d, code) ==
    IF code \in ControlSlots(usb.model)
    THEN {Returned("ERROR_NONE", PendControl(WriteControl(d, code), code))}
    ELSE {Returned("ERROR_UNSUPPORTED", d)}
         \cup IF ControlIndices \subseteq ControlSlots(usb.model) THEN {}
              ELSE {Returned("abort", d)}
                   \cup {Returned("ERROR_NONE", PendControl(d, i)) :
                            i \in ControlIndices \ ControlSlots(usb.model)}

\* stringCommand(command): the outcomes of a request.  The forms are the
\* words of the command; "send bulk" and "send control" without a code read
\* commandParts[2] of a list of two.
StringCommand(d, request) ==
    IF ~usb.connected THEN {Returned("ERROR_CONNECTION", d)}
    ELSE CASE request.form \in {"", "send"} ->
                {Returned("ERROR_PARAMETER", d)}
           [] request.form \in {"other", "send other"} ->
                {Returned("ERROR_UNSUPPORTED", d)}
           [] request.form = "send bulk" ->
                {Returned("abort", d)}
                \cup UNION {SendBulk(d, c) : c \in 0 .. BULK_COUNT + 1}
           [] request.form = "send control" ->
                {Returned("abort", d)}
                \cup UNION {SendControl(d, c) : c \in 0 .. CONTROLINDEX_COUNT}
           [] request.form = "send bulk code" -> SendBulk(d, request.code)
           [] request.form = "send control code" ->
                SendControl(d, request.code)

----------------------------------------------------------------------------
(* Inputs of the public operations *)

\* setSamplerate: 2 kS/s, 33.3 MS/s, 100 MS/s
SamplerateInputs == {Rat(2000, 1), Rat(33300000, 1), Rat(100000000, 1)}
\* setRecordTime: 10 us, 1 ms, 5 s
DurationInputs == {Rat(1, 100000), Rat(1, 1000), Rat(5, 1)}
\* setRecordLength: every preset and one index past the longest list
RecordLengthInputs == 0 .. 3
\* channel arguments: both channels and one index out of range
ChannelInputs == 0 .. HANTEK_CHANNELS
\* setGain, in units of 10 mV/div: below the first step, inside, above the last
GainInputs == {1, 100, 10000}
\* setGain called once: the steps of both tables, their neighbours, the ends
GainCallInputs == {0, 1, 8, 9, 16, 40, 41, 400, 401, 4000, 4001, 8000, 10000}
\* setPretriggerPosition, in microseconds
PositionInputs == {0, 20000}
\* setTriggerMode: the three modes and TRIGGERMODE_COUNT, which is out of range
TriggerModeInputs == TriggerModes \cup {"TRIGGERMODE_COUNT"}
\* USBDevice::getPacketSize(): high speed, or an error
PacketSizes == {512, -1}
\* cycleTime is not set before the end of the first tick
InitialCycleTimes == {10, 1000}
\* getBestSamplerate: rates below the lowest and above the highest rate of
\* every model, rates a factor of 3.5, 5, 5.6 and 7.1 below a base rate, and
\* rates between a base rate and the maximum rate
SolverInputs ==
    {Rat(1, 8), Rat(100, 1), Rat(2000, 1), Rat(7000000, 1), Rat(9000000, 1),
     Rat(10000000, 1), Rat(100000000, 7), Rat(33300000, 1), Rat(50000000, 1),
     Rat(60000000, 1), Rat(100000000, 1), Rat(110000000, 1),
     Rat(230000000, 1), Rat(1000000000, 1)}
\* updateSamplerate: the factors up to 12 and the highest ones of each model
DownsamplerInputs == (0 .. 12) \cup {65534, 65535, 65536, 131070, 131072}
\* setRecordTime: 10 us to 30 s.  A duration is given to a model only if
\* base * duration stays an integer of the checker.
RecordTimeInputs ==
    {Rat(1, 100000), Rat(1, 20000), Rat(1, 10000), Rat(1, 1000), Rat(1, 100),
     Rat(5, 1), Rat(8, 1), Rat(20, 1), Rat(30, 1)}
\* setOffset: offsets in [0, 1], and calibration pairs <<minimum, maximum>>
\* of specification.offsetLimit[channel][gain]
OffsetInputs ==
    {Rat(0, 1), Rat(1, 1), Rat(1, 2), Rat(1, 3), Rat(2, 3), Rat(1, 4),
     Rat(3, 4), Rat(1, 7), Rat(499, 1000), Rat(501, 1000)}

OffsetLimitInputs ==
    {<<0, 1>>, <<100, 103>>, <<8192, 24576>>, <<0, 16384>>, <<32, 224>>,
     <<49151, 65535>>, <<65534, 65535>>}

\* stringCommand: the forms without a code, every bulk code up to one beyond
\* BULK_COUNT, and the control code of every index and of none
StringCommandInputs ==
    {[form |-> f, code |-> 0] :
        f \in {"", "other", "send", "send other", "send bulk", "send control"}}
    \cup {[form |-> "send bulk code", code |-> c] : c \in 0 .. BULK_COUNT + 1}
    \cup {[form |-> "send control code", code |-> c] :
             c \in 0 .. CONTROLINDEX_COUNT}

\* setSamplerate on the 6022BE, which stores any rate: one sample in 8 s and
\* one in 1000 s
SlowSamplerateInputs == {Rat(1, 8), Rat(1, 1000)}

\* getSamples: settings.trigger.point as getCaptureState left it; the 6022BE
\* has no capture state command and keeps the 0 of the constructor
TriggerPointInputs(model) == IF model = "DSO6022BE" THEN {0} ELSE {5000}

\* getSamples: the bytes bulkReadMulti returns of the dataLength requested
ReadInputs(dataLength) ==
    {bytes \in {dataLength, 512} : bytes <= dataLength}

\* What a transport call returns: success, an I/O error, or no device
TransportResults == {LIBUSB_SUCCESS, LIBUSB_ERROR_IO, LIBUSB_ERROR_NO_DEVICE}

----------------------------------------------------------------------------
(* The state after HantekDsoControl::HantekDsoControl *)

\* The constructor disconnects an unknown model and a device whose offset
\* calibration cannot be read, and returns early.
ConstructorCompletes(model, offsetRead) ==
    model # "UNKNOWN" /\ offsetRead >= 0

\* No function under study has been called
NoCall == [op |-> "none"]

Init ==
    \E model \in Models, offsetRead \in {LIBUSB_SUCCESS, LIBUSB_ERROR_IO},
       packetSize \in PacketSizes, cycleTime \in InitialCycleTimes,
       sampling \in BOOLEAN :
      \* sampling = false is the last statement of the constructor
      /\ ConstructorCompletes(model, offsetRead) => ~sampling
      /\ usb = [model |-> model,
                connected |-> ConstructorCompletes(model, offsetRead),
                packetSize |-> packetSize,
                faults |-> 0]
      /\ dso = [limitsMulti |-> FALSE,
                recordLengthId |-> 1,
                downsampler |-> 1,
                current |-> Rat(100000000, 1),
                target |-> TargetDefault,
                used |-> [c \in Channels |-> FALSE],
                usedChannels |-> 0,
                gain |-> [c \in Channels |-> 0],
                triggerMode |-> "TRIGGERMODE_NORMAL",
                triggerSpecial |-> FALSE,
                triggerSource |-> 0,
                triggerPosition |-> 0,
                commandPending |-> InitialCommandPending(model),
                controlPending |-> InitialControlPending(model),
                commandWritten |-> [c \in BulkCodes |-> FALSE],
                controlWritten |-> [i \in ControlIndices |-> FALSE],
                commandFails |-> [c \in BulkCodes |-> 0],
                controlFails |-> [i \in ControlIndices |-> 0],
                sampling |-> sampling,
                samplingStarted |-> FALSE,
                captureState |-> CAPTURE_WAITING,
                rollState |-> ROLL_STARTSAMPLING,
                cycleCounter |-> 0,
                startCycle |-> 0,
                lastTriggerMode |-> "NONE",
                cycleTime |-> cycleTime,
                communicationError |-> FALSE,
                samplesAvailable |-> 0,
                samplingStopped |-> 0]
      /\ tick = [pc |-> "idle", cursor |-> 0, log |-> <<>>, roll |-> FALSE,
                 sampling |-> FALSE]
      /\ lastCall = NoCall

----------------------------------------------------------------------------
(* The public operations, called from the event thread between two ticks *)

Idle == tick.pc = "idle"

\* startSampling(); the emission counters restart with each acquisition
StartSampling ==
    /\ Idle
    /\ dso' = [dso EXCEPT !.sampling = TRUE, !.samplesAvailable = 0,
                          !.samplingStopped = 0]
    /\ UNCHANGED <<usb, tick, lastCall>>

\* stopSampling()
StopSampling ==
    /\ Idle
    /\ dso' = [dso EXCEPT !.sampling = FALSE]
    /\ UNCHANGED <<usb, tick, lastCall>>

DoSetRecordLength ==
    /\ Idle
    /\ \E index \in RecordLengthInputs : dso' = SetRecordLength(dso, index)
    /\ UNCHANGED <<usb, tick, lastCall>>

DoSetSamplerate ==
    /\ Idle
    /\ \E samplerate \in SamplerateInputs : dso' = SetSamplerate(dso, samplerate)
    /\ UNCHANGED <<usb, tick, lastCall>>

\* setSamplerate with the slow rates as well
DoSetAnySamplerate ==
    /\ Idle
    /\ \E samplerate \in SamplerateInputs \cup SlowSamplerateInputs :
          /\ samplerate \in SlowSamplerateInputs => usb.model = "DSO6022BE"
          /\ dso' = SetSamplerate(dso, samplerate)
    /\ UNCHANGED <<usb, tick, lastCall>>

DoSetRecordTime ==
    /\ Idle
    /\ \E duration \in DurationInputs : dso' = SetRecordTime(dso, duration)
    /\ UNCHANGED <<usb, tick, lastCall>>

DoSetChannelUsed ==
    /\ Idle
    /\ \E channel \in ChannelInputs, used \in BOOLEAN :
          dso' = SetChannelUsed(dso, channel, used)
    /\ UNCHANGED <<usb, tick, lastCall>>

DoSetCoupling ==
    /\ Idle
    /\ \E channel \in ChannelInputs : dso' = SetCoupling(dso, channel)
    /\ UNCHANGED <<usb, tick, lastCall>>

DoSetGain ==
    /\ Idle
    /\ \E channel \in ChannelInputs, gain \in GainInputs :
          dso' = SetGain(dso, channel, gain)
    /\ UNCHANGED <<usb, tick, lastCall>>

DoSetOffset ==
    /\ Idle
    /\ \E channel \in ChannelInputs : dso' = SetOffset(dso, channel)
    /\ UNCHANGED <<usb, tick, lastCall>>

DoSetTriggerMode ==
    /\ Idle
    /\ \E mode \in TriggerModeInputs :
          \* a new mode starts a new count of published frames
          dso' = IF SetTriggerMode(dso, mode) = dso THEN dso
                 ELSE [SetTriggerMode(dso, mode)
                         EXCEPT !.samplesAvailable = 0, !.samplingStopped = 0]
    /\ UNCHANGED <<usb, tick, lastCall>>

DoSetTriggerSource ==
    /\ Idle
    /\ \E special \in BOOLEAN, id \in ChannelInputs :
          dso' = SetTriggerSource(dso, special, id)
    /\ UNCHANGED <<usb, tick, lastCall>>

DoSetTriggerSlope ==
    /\ Idle
    /\ dso' = SetTriggerSlope(dso)
    /\ UNCHANGED <<usb, tick, lastCall>>

DoSetTriggerLevel ==
    /\ Idle
    /\ \E channel \in ChannelInputs : dso' = SetTriggerLevel(dso, channel)
    /\ UNCHANGED <<usb, tick, lastCall>>

DoSetPretriggerPosition ==
    /\ Idle
    /\ \E position \in PositionInputs :
          dso' = SetPretriggerPosition(dso, position)
    /\ UNCHANGED <<usb, tick, lastCall>>

DoForceTrigger ==
    /\ Idle
    /\ dso' = ForceTrigger(dso)
    /\ UNCHANGED <<usb, tick, lastCall>>

\* The calls of stringCommand that return
DoStringCommand ==
    /\ Idle
    /\ \E request \in StringCommandInputs :
          \E outcome \in StringCommand(dso, request) :
             /\ outcome.error # "abort"
             /\ dso' = outcome.dso
    /\ UNCHANGED <<usb, tick, lastCall>>

----------------------------------------------------------------------------
(* HantekDsoControl::run, one tick of the timer.  tick.pc is the position of  *)
(* the tick: idle (timer armed), bulk and control (the two flush loops),      *)
(* machine (the state machine), resched (updateInterval and singleShot),      *)
(* stopped (run returned without arming the timer).  tick.log is the sequence *)
(* of transport calls of the tick with their results, tick.roll tells whether *)
(* the state machine ran in roll mode, and tick.sampling is the value of      *)
(* sampling the tick began with.  The specifications run the ticks of a       *)
(* connected device, whose record length id is in range.                      *)

Call(phase, call, index, errorCode) ==
    [phase |-> phase, call |-> call, index |-> index, errorCode |-> errorCode]

\* A loop that starts over at index 0 after each command
RescanPending(pending, from, count) ==
    IF \E i \in 0 .. count - 1 : pending[i]
    THEN CHOOSE i \in 0 .. count - 1 :
            pending[i] /\ \A j \in 0 .. i - 1 : ~pending[j]
    ELSE count

\* A loop that starts one index late
SkipPending(pending, from, count) ==
    IF \E i \in from + 1 .. count - 1 : pending[i]
    THEN CHOOSE i \in from + 1 .. count - 1 :
            pending[i] /\ \A j \in from + 1 .. i - 1 : ~pending[j]
    ELSE count

\* The first pending index in from .. count - 1, or count when there is none:
\* for (i = from; i < count; ++i) if (!pending[i]) continue;
NextPending(pending, from, count) ==
    IF \E i \in from .. count - 1 : pending[i]
    THEN CHOOSE i \in from .. count - 1 :
            pending[i] /\ \A j \in from .. i - 1 : ~pending[j]
    ELSE count

\* A flush that clears the flag whatever the result
ClearedAnyway(errorCode) == FALSE

\* A flush that never clears the flag
NeverCleared(errorCode) == TRUE

\* if (errorCode < 0) ... else pending[i] = false
StillPending(errorCode) == errorCode < 0

\* What a transport call may return once usb.faults calls have failed
Results ==
    IF usb.faults < MaxFaults THEN TransportResults ELSE {LIBUSB_SUCCESS}

\* The failed transport calls of a log
Failures(log) == Cardinality({i \in DOMAIN log : log[i].errorCode < 0})

\* The timer fires
TickStart ==
    /\ tick.pc = "idle"
    /\ tick' = [tick EXCEPT !.pc = "bulk", !.cursor = 0, !.log = <<>>,
                            !.sampling = dso.sampling]
    /\ UNCHANGED <<usb, dso, lastCall>>

\* One iteration of the bulk loop that finds a pending command
FlushBulk ==
    /\ tick.pc = "bulk"
    /\ LET command == NextPending(dso.commandPending, tick.cursor, BULK_COUNT)
       IN /\ command < BULK_COUNT
          /\ \E errorCode \in Results :
               /\ usb' = [usb EXCEPT
                     !.faults = IF errorCode < 0 THEN @ + 1 ELSE @]
               /\ dso' = [dso EXCEPT
                     !.commandPending[command] = StillPending(errorCode),
                     !.commandWritten[command] =
                         IF StillPending(errorCode) THEN @ ELSE FALSE,
                     !.commandFails[command] =
                         IF errorCode < 0 THEN @ + 1 ELSE 0,
                     !.communicationError =
                         @ \/ errorCode = LIBUSB_ERROR_NO_DEVICE]
               /\ tick' = [tick EXCEPT
                     !.pc = IF errorCode = LIBUSB_ERROR_NO_DEVICE
                            THEN "stopped" ELSE "bulk",
                     !.cursor = command + 1,
                     !.log = Append(@, Call("bulk", "bulkCommand", command, errorCode))]
    /\ UNCHANGED lastCall

\* The bulk loop ends
BulkDone ==
    /\ tick.pc = "bulk"
    /\ NextPending(dso.commandPending, tick.cursor, BULK_COUNT) = BULK_COUNT
    /\ tick' = [tick EXCEPT !.pc = "control", !.cursor = 0]
    /\ UNCHANGED <<usb, dso, lastCall>>

\* One iteration of the control loop that finds a pending command
FlushControl ==
    /\ tick.pc = "control"
    /\ LET control == NextPending(dso.controlPending, tick.cursor,
                                  CONTROLINDEX_COUNT)
       IN /\ control < CONTROLINDEX_COUNT
          /\ \E errorCode \in Results :
               /\ usb' = [usb EXCEPT
                     !.faults = IF errorCode < 0 THEN @ + 1 ELSE @]
               /\ dso' = [dso EXCEPT
                     !.controlPending[control] = StillPending(errorCode),
                     !.controlWritten[control] =
                         IF StillPending(errorCode) THEN @ ELSE FALSE,
                     !.controlFails[control] =
                         IF errorCode < 0 THEN @ + 1 ELSE 0,
                     !.communicationError =
                         @ \/ errorCode = LIBUSB_ERROR_NO_DEVICE]
               /\ tick' = [tick EXCEPT
                     !.pc = IF errorCode = LIBUSB_ERROR_NO_DEVICE
                            THEN "stopped" ELSE "control",
                     !.cursor = control + 1,
                     !.log = Append(@, Call("control", "controlWrite", control, errorCode))]
    /\ UNCHANGED lastCall

\* The control loop ends
ControlDone ==
    /\ tick.pc = "control"
    /\ NextPending(dso.controlPending, tick.cursor, CONTROLINDEX_COUNT)
         = CONTROLINDEX_COUNT
    /\ tick' = [tick EXCEPT !.pc = "machine", !.cursor = 0]
    /\ UNCHANGED <<usb, dso, lastCall>>

----------------------------------------------------------------------------
(* The state machine of run().  Each operator yields the set of outcomes of   *)
(* a piece of code: the object afterwards, the transport calls made, and      *)
(* whether run() returned after emitting communicationError.                  *)

Outcome(d, log, fatal) == [dso |-> d, log |-> log, fatal |-> fatal]

\* errorCode = device->bulkCommand(command[code]);
\* if (errorCode < 0) { if (errorCode == NO_DEVICE) { emit; return; } break; }
\* failed: the object at the break; done: the object after the statements
\* that follow a successful call.
MachineCommand(failed, done, log, code) ==
    { Outcome(IF errorCode = LIBUSB_ERROR_NO_DEVICE
                THEN [failed EXCEPT !.communicationError = TRUE]
                ELSE IF errorCode < 0 THEN failed ELSE done,
              Append(log, Call("machine", "bulkCommand", code, errorCode)),
              errorCode = LIBUSB_ERROR_NO_DEVICE)
      : errorCode \in TransportResults }

\* What the device may answer to BULK_GETCAPTURESTATE
DeviceStates(d) ==
    LET ready == CASE usb.model = "DSO2250" -> CAPTURE_READY2250
                   [] usb.model \in {"DSO5200", "DSO5200A"} -> CAPTURE_READY5200
                   [] OTHER -> CAPTURE_READY
    IN  IF d.samplingStarted /\ d.cycleCounter >= MaxWaitTicks
        THEN {CAPTURE_SAMPLING, ready}
        ELSE {CAPTURE_WAITING, CAPTURE_SAMPLING, ready}

\* getCaptureState(): the state or a negative error code, with the calls made
GetCaptureState(d, log) ==
    IF usb.model = "DSO6022BE" THEN {[state |-> CAPTURE_READY, log |-> log]}
    ELSE LET sent(errorCode) ==
                 Append(log, Call("machine", "bulkCommand", BULK_GETCAPTURESTATE, errorCode))
             read(errorCode) ==
                 Append(sent(LIBUSB_SUCCESS), Call("machine", "bulkRead", BULK_NONE, errorCode))
         IN    {[state |-> e, log |-> sent(e)] : e \in TransportResults \ {LIBUSB_SUCCESS}}
          \cup {[state |-> e, log |-> read(e)] : e \in TransportResults \ {LIBUSB_SUCCESS}}
          \cup {[state |-> state, log |-> read(LIBUSB_SUCCESS)] : state \in DeviceStates(d)}

\* emit samplesAvailable().  The history field counts the frames published
\* in single trigger mode since the last startSampling(), up to two.
SamplesAvailable(d) ==
    [d EXCEPT !.samplesAvailable =
        IF d.triggerMode = "TRIGGERMODE_SINGLE" /\ @ < 2 THEN @ + 1 ELSE @]

\* stopSampling() called by run(); the history field counts these calls
\* since the last startSampling(), up to two.
StopSamplingIn(d) ==
    [d EXCEPT !.sampling = FALSE,
              !.samplingStopped = IF @ < 2 THEN @ + 1 ELSE @]

\* getSamples(process); roll tells whether the record length is UINT_MAX
GetSamples(d, log, process, roll) ==
    LET requests ==
          IF usb.model = "DSO6022BE"
          THEN {[errorCode |-> LIBUSB_SUCCESS, log |-> log]}
          ELSE {[errorCode |-> e,
                 log |-> Append(log, Call("machine", "bulkCommand", BULK_GETDATA, e))]
                : e \in TransportResults}
        reads(q) ==
          IF q.errorCode < 0
          THEN {[dso |-> d, errorCode |-> q.errorCode, log |-> q.log]}
          ELSE IF roll /\ usb.packetSize < 0    \* getSampleCount() == UINT_MAX
          THEN {[dso |-> d, errorCode |-> LIBUSB_ERROR_INVALID_PARAM,
                 log |-> q.log]}
          ELSE {[dso |-> IF e >= 0 /\ process THEN SamplesAvailable(d) ELSE d,
                 errorCode |-> e,
                 log |-> Append(q.log, Call("machine", "bulkReadMulti", BULK_NONE, e))]
                : e \in TransportResults}
    IN  UNION {reads(q) : q \in requests}

\* After getSamples: stop in single trigger mode, sampling completed
SamplingCompleted(d) ==
    [(IF d.triggerMode = "TRIGGERMODE_SINGLE" /\ d.samplingStarted
      THEN StopSamplingIn(d) ELSE d) EXCEPT !.samplingStarted = FALSE]

\* A roll state that never advances
SameRollState(rollState) == rollState

\* rollState = (rollState + 1) % ROLL_COUNT
NextRollState(rollState) == (rollState + 1) % ROLL_COUNT

ToNextState(outcomes) ==
    { IF o.fatal THEN o
      ELSE [o EXCEPT !.dso.rollState = NextRollState(@)] : o \in outcomes }

\* Roll mode
RollMode(d0, log) ==
    LET d == [d0 EXCEPT !.captureState = CAPTURE_WAITING]
    IN  CASE d.rollState = ROLL_STARTSAMPLING ->
               IF ~d.sampling THEN {Outcome(d, log, FALSE)}
               ELSE ToNextState(MachineCommand(
                        d, [d EXCEPT !.samplingStarted = TRUE], log,
                        BULK_STARTSAMPLING))
          [] d.rollState = ROLL_ENABLETRIGGER ->
               ToNextState(MachineCommand(d, d, log, BULK_ENABLETRIGGER))
          [] d.rollState = ROLL_FORCETRIGGER ->
               ToNextState(MachineCommand(d, d, log, BULK_FORCETRIGGER))
          [] d.rollState = ROLL_GETDATA ->
               ToNextState({Outcome(SamplingCompleted(s.dso), s.log, FALSE)
                            : s \in GetSamples(d, log, d.samplingStarted, TRUE)})

\* startCycle = settings.trigger.position * 1000 / cycleTime + 1
StartCycle(d) == d.triggerPosition \div (1000 * d.cycleTime) + 1

\* A start that only notes that sampling has started
StartOnly(d, log) ==
    MachineCommand(d, [d EXCEPT !.samplingStarted = TRUE], log,
                   BULK_STARTSAMPLING)

\* Start capturing
StartCapture(d, log) ==
    MachineCommand(d, [d EXCEPT !.samplingStarted = TRUE,
                                !.cycleCounter = 0,
                                !.startCycle = StartCycle(d),
                                !.lastTriggerMode = d.triggerMode],
                   log, BULK_STARTSAMPLING)

\* A wait that ends as soon as one of the two limits is reached
KeepWaitingBoth(d) ==
    d.cycleCounter < 20 /\ d.cycleCounter < 4000 \div d.cycleTime

\* if (cycleCounter < 20 || cycleCounter < 4000 / cycleTime) break;
KeepWaiting(d) ==
    d.cycleCounter < 20 \/ d.cycleCounter < 4000 \div d.cycleTime

AfterTrigger(d, log) ==
    IF KeepWaiting(d) THEN {Outcome(d, log, FALSE)} ELSE StartCapture(d, log)

\* A trigger command of the waiting case, then the wait test
WaitingCommand(d, log, code) ==
    UNION { IF o.log[Len(o.log)].errorCode < 0 THEN {o}
            ELSE AfterTrigger(o.dso, o.log)
            : o \in MachineCommand(d, d, log, code) }

\* A waiting case that forces the trigger in every trigger mode
CaptureWaitingForced(d, log, roll) ==
    IF d.samplingStarted /\ d.lastTriggerMode = d.triggerMode
    THEN LET c == [d EXCEPT !.cycleCounter = @ + 1]
         IN  IF c.cycleCounter = c.startCycle /\ ~roll
             THEN WaitingCommand(c, log, BULK_ENABLETRIGGER)
             ELSE IF c.cycleCounter >= 8 + c.startCycle
             THEN WaitingCommand(c, log, BULK_FORCETRIGGER)
             ELSE AfterTrigger(c, log)
    ELSE StartCapture(d, log)

\* case CAPTURE_WAITING
CaptureWaiting(d, log, roll) ==
    IF d.samplingStarted /\ d.lastTriggerMode = d.triggerMode
    THEN LET c == [d EXCEPT !.cycleCounter = @ + 1]
         IN  IF c.cycleCounter = c.startCycle /\ ~roll
             THEN WaitingCommand(c, log, BULK_ENABLETRIGGER)
             ELSE IF c.cycleCounter >= 8 + c.startCycle
                     /\ c.triggerMode = "TRIGGERMODE_AUTO"
             THEN WaitingCommand(c, log, BULK_FORCETRIGGER)
             ELSE AfterTrigger(c, log)
    ELSE StartCapture(d, log)

\* case CAPTURE_READY, CAPTURE_READY2250, CAPTURE_READY5200
CaptureReady(d, log, roll) ==
    UNION { LET e == SamplingCompleted(s.dso)
            IN  IF ~e.sampling THEN {Outcome(e, s.log, FALSE)}
                ELSE CaptureWaiting(e, s.log, roll)
            : s \in GetSamples(d, log, d.samplingStarted, roll) }

\* Standard mode
StandardMode(d0, log, roll) ==
    LET d == [d0 EXCEPT !.rollState = ROLL_STARTSAMPLING]
    IN  UNION { LET e == [d EXCEPT !.captureState = c.state]
                IN  CASE c.state \in {CAPTURE_READY, CAPTURE_READY2250,
                                      CAPTURE_READY5200} ->
                           CaptureReady(e, c.log, roll)
                      [] c.state = CAPTURE_WAITING ->
                           CaptureWaiting(e, c.log, roll)
                      [] OTHER -> {Outcome(e, c.log, FALSE)}
                : c \in GetCaptureState(d, log) }

\* An interval without the lower bound
IntervalBelow(length, current) ==
    IF length < 0 THEN -1
    ELSE LET per == current.n \div 250
         IN  IF current.d > (1000 * per) \div length THEN 1000
             ELSE (length * current.d) \div per

\* (int)(length / current * 250), bounded to 10 .. 1000 by qBound.  Every
\* samplerate of the tables is a multiple of 250 S/s.
Interval(length, current) ==
    IF length < 0 THEN 10
    ELSE LET per == current.n \div 250
         IN  IF current.d > (1000 * per) \div length THEN 1000
             ELSE LET t == (length * current.d) \div per
                  IN  IF t < 10 THEN 10 ELSE IF t > 1000 THEN 1000 ELSE t

\* The same for a rate that is not a multiple of 250 S/s, which only the
\* 6022BE takes (setSamplerate stores the requested rate).  A quotient
\* beyond the range of int makes the conversion undefined: the builds give
\* the lowest or the highest int, which qBound turns into 10 or 1000.
SlowInterval(length, current) ==
    LET whole == length * 250
        q     == whole \div current.n
        frac  == ((whole % current.n) * current.d) \div current.n
    IN  IF q > (UINT_MAX - frac) \div current.d THEN {10, 1000}
        ELSE LET t == q * current.d + frac
             IN  {IF t < 10 THEN 10 ELSE IF t > 1000 THEN 1000 ELSE t}

\* The values updateInterval() may give to cycleTime
CycleTimes(length, current) ==
    IF length >= 0 /\ current.n % 250 # 0
    THEN SlowInterval(length, current)
    ELSE {Interval(length, current)}

\* updateInterval(): the settings it may leave
UpdateInterval(d) ==
    {[d EXCEPT !.cycleTime = t] :
        t \in IF RecordLength(d) = UINT_MAX
               THEN CycleTimes(usb.packetSize
                                 \div (IF d.limitsMulti THEN 1
                                                        ELSE HANTEK_CHANNELS),
                               d.current)
               ELSE CycleTimes(RecordLength(d), d.current)}

\* The state machine of one tick
Machine ==
    /\ tick.pc = "machine"
    /\ LET roll == RecordLength(dso) = UINT_MAX
       IN \E o \in (IF roll THEN RollMode(dso, tick.log)
                    ELSE StandardMode(dso, tick.log, roll)) :
            /\ usb.faults + Failures(o.log) - Failures(tick.log) <= MaxFaults
            /\ usb' = [usb EXCEPT
                  !.faults = @ + Failures(o.log) - Failures(tick.log)]
            /\ dso' = o.dso
            /\ tick' = [tick EXCEPT
                  !.pc = IF o.fatal THEN "stopped" ELSE "resched",
                  !.log = o.log,
                  !.roll = roll]
    /\ UNCHANGED lastCall

\* The state machine of a tick in standard mode whose getCaptureState()
\* succeeds and reads CAPTURE_WAITING, however long the device has waited
MachineWaiting ==
    /\ tick.pc = "machine"
    /\ RecordLength(dso) # UINT_MAX /\ usb.model # "DSO6022BE"
    /\ LET d   == [dso EXCEPT !.rollState = ROLL_STARTSAMPLING,
                              !.captureState = CAPTURE_WAITING]
           log == tick.log
                    \o <<Call("machine", "bulkCommand", BULK_GETCAPTURESTATE,
                              LIBUSB_SUCCESS),
                         Call("machine", "bulkRead", BULK_NONE, LIBUSB_SUCCESS)>>
       IN \E o \in CaptureWaiting(d, log, FALSE) :
            /\ usb.faults + Failures(o.log) - Failures(tick.log) <= MaxFaults
            /\ usb' = [usb EXCEPT
                  !.faults = @ + Failures(o.log) - Failures(tick.log)]
            /\ dso' = o.dso
            /\ tick' = [tick EXCEPT
                  !.pc = IF o.fatal THEN "stopped" ELSE "resched",
                  !.log = o.log,
                  !.roll = FALSE]
    /\ UNCHANGED lastCall

\* updateInterval(); QTimer::singleShot(cycleTime, this, run)
Reschedule ==
    /\ tick.pc = "resched"
    /\ dso' \in UpdateInterval(dso)
    /\ tick' = [pc |-> "idle", cursor |-> 0, log |-> <<>>, roll |-> FALSE,
                sampling |-> FALSE]
    /\ UNCHANGED <<usb, lastCall>>

Run ==
    \/ TickStart
    \/ FlushBulk
    \/ BulkDone
    \/ FlushControl
    \/ ControlDone
    \/ Machine
    \/ Reschedule

----------------------------------------------------------------------------
(* HantekDsoControl::calculateTriggerPoint *)

\* value & bitValue, with bitValue = 2^bit
BitAt(value, bit) == (value \div 2^bit) % 2

\* result ^= bitValue - 1: the bits below bitValue are inverted
InvertBelow(result, bit) ==
    LET low == result % 2^bit
    IN  result - low + (2^bit - 1 - low)

\* for (bitValue = 1; bitValue; bitValue <<= 1)
\*     if (result & bitValue) result ^= bitValue - 1;
\* A step never changes the bit it tests nor a higher one, so the steps above
\* the highest set bit of the value do nothing and the loop is cut there.
RECURSIVE TriggerPointLoop(_, _)
TriggerPointLoop(result, bit) ==
    IF 2^bit > result THEN result
    ELSE TriggerPointLoop(IF BitAt(result, bit) = 1
                          THEN InvertBelow(result, bit) ELSE result,
                          bit + 1)

\* A trigger point taken as it is
TriggerPointRaw(value) == value

CalculateTriggerPoint(value) == TriggerPointLoop(value, 0)

\* calculateTriggerPoint(value), and the function applied to its own result
CallCalculateTriggerPoint ==
    /\ lastCall = NoCall
    /\ \E value \in 0 .. MaxTriggerValue :
          lastCall' = [op |-> "calculateTriggerPoint",
                       value |-> value,
                       result |-> CalculateTriggerPoint(value),
                       again |-> CalculateTriggerPoint(
                                    CalculateTriggerPoint(value))]
    /\ UNCHANGED <<usb, dso, tick>>

\* getBestSamplerate(samplerate, fastRate, maximum, &downsampler)
CallGetBestSamplerate ==
    /\ lastCall = NoCall
    /\ \E samplerate \in SolverInputs, fastRate \in BOOLEAN, maximum \in BOOLEAN :
          LET best == GetBestSamplerate(dso, samplerate, fastRate, maximum)
          IN  lastCall' = [op |-> "getBestSamplerate",
                           samplerate |-> samplerate,
                           fastRate |-> fastRate,
                           maximum |-> maximum,
                           rate |-> best.rate,
                           downsampler |-> best.downsampler]
    /\ UNCHANGED <<usb, dso, tick>>

\* updateSamplerate(downsampler, fastRate), with the fields it writes
CallUpdateSamplerate ==
    /\ lastCall = NoCall
    /\ \E downsampler \in DownsamplerInputs, fastRate \in BOOLEAN :
          /\ dso' = UpdateSamplerate(dso, downsampler, fastRate)
          /\ lastCall' = [op |-> "updateSamplerate",
                          downsampler |-> downsampler,
                          fastRate |-> fastRate,
                          fields |-> SamplerateFields(usb.model, downsampler,
                                                      Limits(fastRate))]
    /\ UNCHANGED <<usb, tick>>

\* setSamplerate(samplerate), with the settings it leaves
CallSetSamplerate ==
    /\ lastCall = NoCall
    /\ \E samplerate \in SolverInputs :
          /\ dso' = SetSamplerate(dso, samplerate)
          /\ lastCall' = [op |-> "setSamplerate",
                          samplerate |-> samplerate,
                          recordLengthId |-> dso.recordLengthId,
                          fastRate |-> dso'.limitsMulti,
                          downsampler |-> dso'.downsampler,
                          current |-> dso'.current]
    /\ UNCHANGED <<usb, tick>>

\* setRecordTime(duration), with the settings it leaves
CallSetRecordTime ==
    /\ lastCall = NoCall
    /\ \E duration \in RecordTimeInputs :
          /\ duration.n <= UINT_MAX \div SingleLimits(usb.model).base
          /\ dso' = SetRecordTime(dso, duration)
          /\ lastCall' = [op |-> "setRecordTime",
                          duration |-> duration,
                          recordLengthId |-> dso.recordLengthId,
                          fastRate |-> dso'.limitsMulti,
                          downsampler |-> dso'.downsampler,
                          current |-> dso'.current]
    /\ UNCHANGED <<usb, tick>>

\* r = setOffset(channel, offset), then setOffset(channel, r): the value
\* written into SETOFFSET and the offsetReal stored by each call
CallSetOffset ==
    /\ lastCall = NoCall
    /\ \E channel \in 0 .. HANTEK_CHANNELS - 1, offset \in OffsetInputs,
          offsetLimit \in OffsetLimitInputs :
          LET minimum     == offsetLimit[1]
              maximum     == offsetLimit[2]
              offsetValue == OffsetValue(offset, minimum, maximum)
              offsetReal  == OffsetReal(offsetValue, minimum, maximum)
              againValue  == OffsetValue(offsetReal, minimum, maximum)
          IN  /\ dso' = SetOffset(SetOffset(dso, channel), channel)
              /\ lastCall' = [op |-> "setOffset",
                              channel |-> channel,
                              offset |-> offset,
                              minimum |-> minimum,
                              maximum |-> maximum,
                              offsetValue |-> offsetValue,
                              offsetReal |-> offsetReal,
                              againValue |-> againValue,
                              againReal |->
                                  OffsetReal(againValue, minimum, maximum)]
    /\ UNCHANGED <<usb, tick>>

\* setGain(channel, gain), with the index it stored and the relays it set;
\* the 6022BE has no relays to set
CallSetGain ==
    /\ lastCall = NoCall
    /\ \E channel \in ChannelInputs, gain \in GainCallInputs :
          LET accepted == usb.connected /\ channel < HANTEK_CHANNELS
              gainId   == GainIdFor(usb.model, gain)
          IN  /\ dso' = SetGain(dso, channel, gain)
              /\ lastCall' = [op |-> "setGain",
                              channel |-> channel,
                              gain |-> gain,
                              accepted |-> accepted,
                              stored |-> IF accepted THEN dso'.gain[channel]
                                                     ELSE -1,
                              relays |-> IF accepted
                                            /\ usb.model # "DSO6022BE"
                                         THEN {GainRelays(gainId)}
                                         ELSE {}]
    /\ UNCHANGED <<usb, tick>>

\* stringCommand(request), with what it returned and whether it changed a
\* command buffer or a pending flag
CallStringCommand ==
    /\ lastCall = NoCall
    /\ \E request \in StringCommandInputs :
          \E outcome \in StringCommand(dso, request) :
             /\ dso' = outcome.dso
             /\ lastCall' = [op |-> "stringCommand",
                             request |-> request,
                             error |-> outcome.error,
                             changed |-> outcome.dso # dso]
    /\ UNCHANGED <<usb, tick>>

----------------------------------------------------------------------------
(* HantekDsoControl::getSamples(true): the decoding of a frame into the       *)
(* shared result.  The call is the record lastCall: pc is its position,       *)
(* result the shared result with the size of each channel's data and the raw  *)
(* position of its first sample, lock the state of result.lock.  An unsigned  *)
(* int that has wrapped around is kept as the negative number it is congruent *)
(* to modulo 2^32.                                                            *)

\* specification.sampleSize
SampleSize(model) == IF model \in {"DSO5200", "DSO5200A"} THEN 10 ELSE 8

\* getSampleCount(&fastRate)
GetSampleCount(d) ==
    IF RecordLength(d) = UINT_MAX
    THEN IF usb.packetSize < 0 THEN UINT_MAX ELSE usb.packetSize
    ELSE IF d.limitsMulti THEN RecordLength(d)
                          ELSE RecordLength(d) * HANTEK_CHANNELS

\* A result that never appends
AppendNever(d) == FALSE

\* result.append = recordLengths[settings.recordLengthId] == UINT_MAX
ResultAppend(d) == RecordLength(d) = UINT_MAX

\* a < b for unsigned int
UnsignedLess(a, b) == IF (a < 0) = (b < 0) THEN a < b ELSE b < 0

\* The result before the first frame
EmptyResult ==
    [samplerate |-> Zero, append |-> FALSE,
     size |-> [c \in Channels |-> 0], first |-> [c \in Channels |-> 0]]

\* The call before it was ever made
NoFrame ==
    [op |-> "getSamples", pc |-> "idle", previousSampleCount |-> 0,
     bytes |-> 0, point |-> 0, lock |-> "free",
     result |-> EmptyResult]

Frame == IF lastCall = NoCall THEN NoFrame ELSE lastCall

\* totalSampleCount after the read: dataLength / 2 for samples of two bytes
TotalSampleCount(bytes) ==
    IF SampleSize(usb.model) > 8 THEN bytes \div 2 ELSE bytes

\* A normal layout that drops nothing
SampleCountUndropped(total) == total \div HANTEK_CHANNELS

\* sampleCount of the normal layout
SampleCountNormal(total) ==
    IF usb.model = "DSO6022BE"
    THEN total \div HANTEK_CHANNELS - (DROP_DSO6022_HEAD + DROP_DSO6022_TAIL)
    ELSE total \div HANTEK_CHANNELS

\* if (bufferPosition >= totalSampleCount) bufferPosition %= totalSampleCount;
\* a frame of no samples reads no position
Wrapped(bufferPosition, total) ==
    IF total > 0 THEN bufferPosition % total ELSE 0

\* The index into data of the low byte of realPosition 0, normal layout
FirstPosition(channel, point, total) ==
    IF usb.model = "DSO6022BE"
    THEN Wrapped(point * 2 + channel + DROP_DSO6022_HEAD * 2, total)
    ELSE IF SampleSize(usb.model) > 8
    THEN Wrapped(point * 2, total) + HANTEK_CHANNELS - 1 - channel
    ELSE Wrapped(point * 2 + HANTEK_CHANNELS - 1 - channel, total)

\* A vector that takes the size of every frame
Resized(size, sampleCount) == sampleCount

\* if (result.data[channel].size() < sampleCount)
\*     result.data[channel].resize(sampleCount);
GrownTo(size, sampleCount) ==
    IF UnsignedLess(size, sampleCount) THEN sampleCount ELSE size

\* The data of the result after the fast rate layout
DecodeFast(d, frame) ==
    LET total   == TotalSampleCount(frame.bytes)
        used    == {c \in Channels : d.used[c]}
        channel == IF used = {} THEN HANTEK_CHANNELS
                   ELSE CHOOSE c \in used : \A o \in used : c <= o
    IN  [frame.result EXCEPT
           !.size  = [c \in Channels |-> IF c = channel THEN total ELSE 0],
           !.first = [c \in Channels |->
                         IF c = channel THEN Wrapped(frame.point * 2, total)
                                        ELSE 0]]

\* The data of the result after the normal layout
DecodeNormal(d, frame) ==
    LET total == TotalSampleCount(frame.bytes)
    IN  [frame.result EXCEPT
           !.size  = [c \in Channels |->
                         IF d.used[c]
                         THEN GrownTo(@[c], SampleCountNormal(total))
                         ELSE 0],
           !.first = [c \in Channels |->
                         IF d.used[c]
                         THEN FirstPosition(c, frame.point, total)
                         ELSE 0]]

\* The call is not under way: the setters run between two calls
Outside == Frame.pc = "idle"

\* The request and the read of a frame that will be processed
GetSamplesRead ==
    /\ lastCall.op \in {"none", "getSamples"}
    /\ Frame.pc = "idle"
    /\ GetSampleCount(dso) # UINT_MAX
    /\ LET count       == GetSampleCount(dso)
           requested   == IF count < Frame.previousSampleCount
                          THEN Frame.previousSampleCount ELSE count
           dataLength  == IF SampleSize(usb.model) > 8 THEN requested * 2
                                                       ELSE requested
       IN \E bytes \in ReadInputs(dataLength),
             point \in TriggerPointInputs(usb.model) :
            lastCall' = [Frame EXCEPT !.pc = "received",
                                      !.previousSampleCount = count,
                                      !.bytes = bytes, !.point = point]
    /\ UNCHANGED <<usb, dso, tick>>

\* A decoding that takes no lock
NoWriteLock(frame) == [frame EXCEPT !.pc = "locked"]

\* QWriteLocker locker(&result.lock), once the lock is free
WriteLock(frame) == [frame EXCEPT !.pc = "locked", !.lock = "write"]

\* QWriteLocker locker(&result.lock)
GetSamplesLock ==
    /\ lastCall.op = "getSamples" /\ lastCall.pc = "received"
    /\ lastCall.lock = "free"
    /\ lastCall' = WriteLock(lastCall)
    /\ UNCHANGED <<usb, dso, tick>>

\* result.samplerate and result.append
GetSamplesHeader ==
    /\ lastCall.op = "getSamples" /\ lastCall.pc = "locked"
    /\ lastCall' = [lastCall EXCEPT
          !.pc = "header",
          !.result.samplerate = dso.current,
          !.result.append = ResultAppend(dso)]
    /\ UNCHANGED <<usb, dso, tick>>

\* The channel data.  A sampleCount that has wrapped around asks resize for
\* some 2^32 samples: the allocation fails, or the vector takes that size.
GetSamplesData ==
    /\ lastCall.op = "getSamples" /\ lastCall.pc = "header"
    /\ LET decoded == IF dso.limitsMulti THEN DecodeFast(dso, lastCall)
                                         ELSE DecodeNormal(dso, lastCall)
           wrapped == \E c \in Channels : decoded.size[c] < 0
       IN  \/ lastCall' = [lastCall EXCEPT !.pc = "decoded",
                                           !.result = decoded]
           \/ /\ wrapped
              /\ lastCall' = [lastCall EXCEPT !.pc = "aborted"]
    /\ UNCHANGED <<usb, dso, tick>>

\* The end of the block of the locker
GetSamplesUnlock ==
    /\ lastCall.op = "getSamples" /\ lastCall.pc = "decoded"
    /\ lastCall' = [lastCall EXCEPT !.pc = "unlocked", !.lock = "free"]
    /\ UNCHANGED <<usb, dso, tick>>

\* emit samplesAvailable()
GetSamplesEmit ==
    /\ lastCall.op = "getSamples" /\ lastCall.pc = "unlocked"
    /\ lastCall' = [lastCall EXCEPT !.pc = "idle",
                                    !.bytes = 0, !.point = 0]
    /\ UNCHANGED <<usb, dso, tick>>

\* A consumer takes and returns the read lock
ReaderLock ==
    /\ lastCall.op = "getSamples" /\ lastCall.lock = "free"
    /\ lastCall' = [lastCall EXCEPT !.lock = "read"]
    /\ UNCHANGED <<usb, dso, tick>>

ReaderUnlock ==
    /\ lastCall.op = "getSamples" /\ lastCall.lock = "read"
    /\ lastCall' = [lastCall EXCEPT !.lock = "free"]
    /\ UNCHANGED <<usb, dso, tick>>

----------------------------------------------------------------------------
(* Specifications *)

\* The rate and record length operations alone
NextRate ==
    \/ DoSetChannelUsed
    \/ DoSetSamplerate
    \/ DoSetRecordTime
    \/ DoSetRecordLength

SpecRate == Init /\ [][NextRate]_vars

\* The acquisition: start, stop, trigger mode, and the ticks
NextRun ==
    \/ StartSampling
    \/ StopSampling
    \/ DoSetTriggerMode
    \/ Run

\* The ticks run for a device whose construction completed; one model with
\* the capture state command and the one without it
RunModels == {"DSO2250", "DSO6022BE"}

InitRun == Init /\ usb.connected /\ usb.model \in RunModels

SpecRun == InitRun /\ [][NextRun]_vars

\* No setter has written a command that is still to be transmitted
Fresh ==
    /\ \A c \in BulkCodes : ~dso.commandWritten[c]
    /\ \A i \in ControlIndices : ~dso.controlWritten[i]

\* The setters that write a command, each called once: the ticks of a
\* connected device of any model, up to the return of the first setter that
\* wrote a command
NextSetters ==
    \/ Fresh /\ DoSetRecordLength
    \/ Fresh /\ DoSetSamplerate
    \/ Fresh /\ DoSetRecordTime
    \/ Fresh /\ DoSetChannelUsed
    \/ Fresh /\ DoSetCoupling
    \/ Fresh /\ DoSetGain
    \/ Fresh /\ DoSetOffset
    \/ Fresh /\ DoSetTriggerSource
    \/ Fresh /\ DoSetTriggerSlope
    \/ Fresh /\ DoSetTriggerLevel
    \/ Fresh /\ DoSetPretriggerPosition
    \/ Fresh /\ Run

InitConnected == Init /\ usb.connected

SpecSetters == InitConnected /\ [][NextSetters]_vars

\* Roll mode: record length, start, and the ticks
NextRoll ==
    \/ StartSampling
    \/ DoSetRecordLength
    \/ Run

SpecRoll == InitRun /\ [][NextRoll]_vars

\* The flush of the commands: two setters, forceTrigger, and the ticks
NextFlush ==
    \/ DoSetTriggerSlope
    \/ DoSetOffset
    \/ DoForceTrigger
    \/ Run

SpecFlush == InitRun /\ [][NextFlush]_vars

----------------------------------------------------------------------------
(* Properties *)

\* C1: in every state reached by setChannelUsed, setSamplerate, setRecordTime
\* and setRecordLength, the multi (fast rate) limits are active only while at
\* most one channel is used.
C1_FastRateSingleChannel ==
    dso.limitsMulti => dso.usedChannels <= 1

\* C2: for every model id, the unknown one included, and after every switch
\* between the single and the multi limits, recordLengthId is an index of the
\* active record length list.
C2_RecordLengthIdInRange ==
    dso.recordLengthId < Len(RecordLengths(dso))

\* The calls of the tick that the state machine made
MachineCalls == {i \in DOMAIN tick.log : tick.log[i].phase = "machine"}

\* C3: in a tick that begins with sampling false, in roll mode or standard
\* mode and whatever the capture state, BULK_STARTSAMPLING is not sent.
C3_NoStartWhileStopped ==
    ~tick.sampling =>
        \A i \in MachineCalls :
            ~(tick.log[i].call = "bulkCommand"
              /\ tick.log[i].index = BULK_STARTSAMPLING)

\* C4: in single trigger mode, after one startSampling() at most one frame is
\* published and stopSampling() runs at most once until the next
\* startSampling().
C4_SingleShotOnce ==
    dso.triggerMode = "TRIGGERMODE_SINGLE" =>
        dso.samplesAvailable <= 1 /\ dso.samplingStopped <= 1

\* C5: when any transport call of a tick returns LIBUSB_ERROR_NO_DEVICE,
\* communicationError is emitted and no further tick is scheduled.
C5_NoDeviceStops ==
    \A i \in DOMAIN tick.log :
        tick.log[i].errorCode = LIBUSB_ERROR_NO_DEVICE =>
            tick.pc = "stopped" /\ dso.communicationError

\* The transport calls the step added to the log of the tick
NewCalls == SubSeq(tick'.log, Len(tick.log) + 1, Len(tick'.log))

\* The bulk command of a roll state
RollCommand(rollState) ==
    CASE rollState = ROLL_STARTSAMPLING -> BULK_STARTSAMPLING
      [] rollState = ROLL_ENABLETRIGGER -> BULK_ENABLETRIGGER
      [] rollState = ROLL_FORCETRIGGER -> BULK_FORCETRIGGER
      [] rollState = ROLL_GETDATA -> BULK_GETDATA

\* C6: in roll mode, with sampling true, a trigger mode other than single and
\* every transport call of the tick succeeding, the tick performs the one
\* command of its roll state (start sampling, enable trigger, force trigger,
\* get data, in this order), moves to the next roll state, wrapping from get
\* data to start sampling, and leaves sampling true.
C6_RollCycle ==
    [][(/\ tick.pc = "machine" /\ tick'.pc # "machine"
        /\ RecordLength(dso) = UINT_MAX
        /\ dso.sampling
        /\ dso.triggerMode # "TRIGGERMODE_SINGLE"
        /\ Failures(tick'.log) = 0)
       => /\ dso'.rollState = (dso.rollState + 1) % ROLL_COUNT
          /\ dso'.sampling
          /\ IF dso.rollState = ROLL_GETDATA
             THEN \A i \in DOMAIN NewCalls :
                     \/ NewCalls[i].call = "bulkReadMulti"
                     \/ NewCalls[i].index = BULK_GETDATA
             ELSE /\ Len(NewCalls) = 1
                  /\ NewCalls[1].call = "bulkCommand"
                  /\ NewCalls[1].index = RollCommand(dso.rollState)]_vars

\* A roll cycle has wrapped around: the tick read the data without a failure
\* and the next roll state is start sampling.
C6_Wrapped ==
    /\ tick.pc = "resched" /\ tick.roll
    /\ dso.sampling
    /\ dso.rollState = ROLL_STARTSAMPLING
    /\ Failures(tick.log) = 0
    /\ \E i \in MachineCalls :
          tick.log[i].call = "bulkCommand" /\ tick.log[i].index = BULK_GETDATA
    /\ \E i \in MachineCalls : tick.log[i].call = "bulkReadMulti"

\* The last call of the log after the step
Sent == tick'.log[Len(tick'.log)]

\* C7: a flush transmits only a pending command; success clears its pending
\* flag; a failure other than NO_DEVICE leaves the flag set and the loop goes
\* on; no other flag changes.
C7_FlushResult ==
    [][/\ (tick.pc = "bulk" /\ Len(tick'.log) = Len(tick.log) + 1)
          => /\ dso.commandPending[Sent.index]
             /\ dso'.commandPending[Sent.index] = (Sent.errorCode < 0)
             /\ \A c \in BulkCodes \ {Sent.index} :
                   dso'.commandPending[c] = dso.commandPending[c]
             /\ dso'.controlPending = dso.controlPending
             /\ (Sent.errorCode < 0 /\ Sent.errorCode # LIBUSB_ERROR_NO_DEVICE)
                   => tick'.pc = "bulk"
       /\ (tick.pc = "control" /\ Len(tick'.log) = Len(tick.log) + 1)
          => /\ dso.controlPending[Sent.index]
             /\ dso'.controlPending[Sent.index] = (Sent.errorCode < 0)
             /\ \A i \in ControlIndices \ {Sent.index} :
                   dso'.controlPending[i] = dso.controlPending[i]
             /\ dso'.commandPending = dso.commandPending
             /\ (Sent.errorCode < 0 /\ Sent.errorCode # LIBUSB_ERROR_NO_DEVICE)
                   => tick'.pc = "control"]_vars

\* Both loops are done; one command failed and is still pending, and a later
\* one of the same loop was transmitted and is no longer pending.
C7_FailedThenSent ==
    /\ tick.pc = "machine"
    /\ \E i, j \in DOMAIN tick.log :
          /\ i < j
          /\ tick.log[i].phase = "bulk" /\ tick.log[j].phase = "bulk"
          /\ tick.log[i].errorCode = LIBUSB_ERROR_IO
          /\ dso.commandPending[tick.log[i].index]
          /\ tick.log[j].errorCode = LIBUSB_SUCCESS
          /\ ~dso.commandPending[tick.log[j].index]

\* The place of a call in the order of a tick
Rank(call) ==
    CASE call.phase = "bulk" -> call.index
      [] call.phase = "control" -> BULK_COUNT + call.index
      [] OTHER -> BULK_COUNT + CONTROLINDEX_COUNT

\* C8: within a tick the pending bulk commands are sent in ascending opcode
\* order, then the pending control commands in ascending index order, and
\* only afterwards the calls of the state machine.
C8_FlushOrder ==
    \A i, j \in DOMAIN tick.log :
        i < j => \/ Rank(tick.log[i]) < Rank(tick.log[j])
                 \/ tick.log[i].phase = "machine" /\ tick.log[j].phase = "machine"

\* A tick that sent two bulk commands, two control commands and a command of
\* the state machine
C8_AllPhases ==
    /\ tick.pc = "resched"
    /\ Cardinality({i \in DOMAIN tick.log : tick.log[i].phase = "bulk"}) >= 2
    /\ Cardinality({i \in DOMAIN tick.log : tick.log[i].phase = "control"}) >= 2
    /\ MachineCalls # {}

\* The writes of the tick that failed, by phase and index
Failed(phase, index) ==
    \E i \in DOMAIN tick.log :
        /\ tick.log[i].phase = phase
        /\ tick.log[i].index = index
        /\ tick.log[i].errorCode < 0

\* C9 as stated: the command a setter wrote is transmitted no later than the
\* tick after the next tick, for every pattern of transport results without
\* NO_DEVICE: no written command has failed in two ticks.
C9_WithinTwoTicks ==
    /\ \A c \in BulkCodes : dso.commandWritten[c] => dso.commandFails[c] < 2
    /\ \A i \in ControlIndices : dso.controlWritten[i] => dso.controlFails[i] < 2

\* C9, amended: every command that is pending when a tick begins is written
\* in that tick, and it is still pending after the two loops only if that
\* write failed.
C9_WrittenEveryTick ==
    tick.pc \in {"machine", "resched"} =>
        /\ \A c \in BulkCodes : dso.commandPending[c] => Failed("bulk", c)
        /\ \A i \in ControlIndices : dso.controlPending[i] => Failed("control", i)

\* The command a setter wrote failed in one tick, is still pending, and the
\* tick goes on to arm the timer
C9_Retry ==
    /\ tick.pc = "resched"
    /\ \E c \in BulkCodes :
          /\ dso.commandWritten[c] /\ dso.commandPending[c]
          /\ dso.commandFails[c] = 1
          /\ Failed("bulk", c)

\* C10: when a public setter (setRecordLength, setSamplerate, setRecordTime,
\* setChannelUsed, setCoupling, setGain, setOffset, setTriggerSource,
\* setTriggerSlope, setTriggerLevel, setPretriggerPosition) has written a
\* field of a command, the pending flag of that command is set when the
\* setter returns.
C10_WrittenIsPending ==
    /\ \A c \in BulkCodes : dso.commandWritten[c] => dso.commandPending[c]
    /\ \A i \in ControlIndices : dso.controlWritten[i] => dso.controlPending[i]

\* Every command had been transmitted, and a setter then wrote a bulk and a
\* control command: exactly the commands it wrote are pending.
C10_SetterAfterFlush ==
    /\ tick.pc = "idle"
    /\ \E c \in BulkCodes : dso.commandWritten[c]
    /\ \E i \in ControlIndices : dso.controlWritten[i]
    /\ dso.commandPending = dso.commandWritten
    /\ dso.controlPending = dso.controlWritten

\* One object, to which the functions under study are applied
InitOne ==
    /\ Init
    /\ usb.model = "DSO2090" /\ usb.connected /\ usb.packetSize = 512
    /\ dso.cycleTime = 10

NextTriggerPoint ==
    \/ CallCalculateTriggerPoint

SpecTriggerPoint == InitOne /\ [][NextTriggerPoint]_vars

\* b XOR c of two naturals
RECURSIVE Xor(_, _)
Xor(b, c) ==
    IF b = 0 THEN c
    ELSE IF c = 0 THEN b
    ELSE 2 * Xor(b \div 2, c \div 2) + ((b + c) % 2)

\* The reflected binary (Gray) code of a natural
Gray(n) == Xor(n, n \div 2)

\* C11 as stated: calculateTriggerPoint is an involution on the 16-bit
\* values, calculateTriggerPoint(calculateTriggerPoint(x)) = x.
C11_Involution ==
    lastCall.op = "calculateTriggerPoint" => lastCall.again = lastCall.value

\* C11, amended: calculateTriggerPoint decodes the reflected binary code: the
\* Gray code of its result is its argument, so it is one-to-one on the 16-bit
\* values.
C11_GrayDecode ==
    lastCall.op = "calculateTriggerPoint" =>
        Gray(lastCall.result) = lastCall.value

\* The value 4 is decoded to 7, and 7 is decoded to 5
C11_FourSevenFive ==
    /\ lastCall.op = "calculateTriggerPoint"
    /\ lastCall.value = 4 /\ lastCall.result = 7 /\ lastCall.again = 5

\* One connected object of each model
InitModels ==
    /\ Init
    /\ usb.connected /\ usb.packetSize = 512
    /\ dso.cycleTime = 10

\* The solver, called at every record length
NextSolver ==
    \/ DoSetRecordLength
    \/ CallGetBestSamplerate

SpecSolver == InitModels /\ [][NextSolver]_vars

\* The call under study is getBestSamplerate
Solved == lastCall.op = "getBestSamplerate"

\* rate <= samplerate, for a rate base / downsampler or max / 1
AtMost(rate, samplerate) ==
    LET a == rate.n * samplerate.d
    IN  \/ a \div samplerate.n < rate.d
        \/ a \div samplerate.n = rate.d /\ a % samplerate.n = 0

\* rate >= samplerate
AtLeast(rate, samplerate) ==
    (rate.n * samplerate.d) \div samplerate.n >= rate.d

\* C12: on the models the solver handles, getBestSamplerate returns with
\* maximum a rate that does not exceed the target, and without maximum a rate
\* that is not below the target.
C12_RoundingDirection ==
    (Solved /\ usb.model # "DSO6022BE") =>
        IF lastCall.maximum
        THEN AtMost(lastCall.rate, lastCall.samplerate)
        ELSE AtLeast(lastCall.rate, lastCall.samplerate)

\* C13: the downsampler getBestSamplerate writes is at most maxDownsampler of
\* the limits the fastRate argument selects.
C13_MaxDownsampler ==
    Solved => lastCall.downsampler <= Limits(lastCall.fastRate).maxDownsampler

\* A target below the lowest rate: the downsampler is held at maxDownsampler
\* and the rate returned with maximum exceeds the target
C13_Limited ==
    /\ Solved /\ lastCall.maximum
    /\ lastCall.downsampler = Limits(lastCall.fastRate).maxDownsampler
    /\ ~AtMost(lastCall.rate, lastCall.samplerate)

C15_NotHandled6022 ==
    (Solved /\ usb.model = "DSO6022BE") => lastCall.rate = Zero

\* The samplerate encoding
NextEncode ==
    \/ CallUpdateSamplerate

SpecEncode == InitModels /\ [][NextEncode]_vars

\* The command family that carries the samplerate
Family == CommandBinding(usb.model).setSamplerate

\* A downsampler the solver can return for the model and the rate mode
Legal(downsampler, fastRate) ==
    /\ downsampler <= Limits(fastRate).maxDownsampler
    /\ Family = BULK_SETTRIGGERANDSAMPLERATE =>
          \/ downsampler \in {0, 1, 2, 5}
          \/ downsampler >= 6 /\ downsampler % 2 = 0

\* The downsampler the written fields stand for
Decode(fields) ==
    CASE Family = BULK_SETTRIGGERANDSAMPLERATE ->
           IF fields.downsamplingMode THEN 2 * (65537 - fields.downsampler)
           ELSE IF fields.samplerateId = 3 THEN 5 ELSE fields.samplerateId
      [] Family = BULK_CSETTRIGGERORSAMPLERATE ->
           (4 - fields.samplerateFast)
             + 2 * (IF fields.samplerateSlow = 0 THEN 0
                    ELSE 65535 - fields.samplerateSlow)
      [] Family = BULK_ESETTRIGGERORSAMPLERATE ->
           IF ~fields.downsampling THEN 0
           ELSE IF fields.samplerate = 0 THEN 1
           ELSE 65537 - fields.samplerate

\* The call under study is updateSamplerate with a legal downsampler on a
\* model that has a samplerate command
Encoded ==
    /\ lastCall.op = "updateSamplerate"
    /\ Family # BULK_NONE
    /\ Legal(lastCall.downsampler, lastCall.fastRate)

\* C19 as stated: the fields updateSamplerate writes decode to the legal
\* downsampler it was called with, the sentinel 0 included.
C19_DecodesBack ==
    Encoded => Decode(lastCall.fields) = lastCall.downsampler

\* C19, amended: the fields decode to the downsampler, except that the 2090
\* family writes the sentinel 0 as the factor 1 when the base rate is not
\* below the maximum rate.
C19_DecodesBackButZero ==
    Encoded =>
        Decode(lastCall.fields) =
            IF /\ Family = BULK_SETTRIGGERANDSAMPLERATE
               /\ lastCall.downsampler = 0
               /\ Limits(lastCall.fastRate).base >= Limits(lastCall.fastRate).max
            THEN 1 ELSE lastCall.downsampler

\* On a DSO-2090 the highest factor 131072 is written as the word 1 with the
\* downsampling mode set
C19_HighestFactor ==
    /\ Encoded /\ usb.model = "DSO2090"
    /\ lastCall.downsampler = 131072
    /\ lastCall.fields.downsamplingMode
    /\ lastCall.fields.downsampler = 1

\* The samplerate target: channels, record length, and one call of
\* setSamplerate or setRecordTime
NextTarget ==
    \/ DoSetChannelUsed
    \/ DoSetRecordLength
    \/ CallSetSamplerate
    \/ CallSetRecordTime

SpecTarget == InitModels /\ [][NextTarget]_vars

\* The limits of the rate mode the call chose, and its two rates
ChosenLimits == Limits(lastCall.fastRate)
ChosenDivider == BufferDividers(usb.model)[lastCall.recordLengthId + 1]
ChosenBase == ChosenLimits.base \div ChosenDivider
ChosenMax == ChosenLimits.max \div ChosenDivider

\* floor and ceiling of ChosenBase / samplerate
IdealFloor(samplerate) == (ChosenBase * samplerate.d) \div samplerate.n
IdealCeiling(samplerate) ==
    IF (ChosenBase * samplerate.d) % samplerate.n = 0
    THEN IdealFloor(samplerate) ELSE IdealFloor(samplerate) + 1

\* The smaller of two numbers
Min(b, c) == IF b < c THEN b ELSE c

\* The rate the settings hold is the one of the downsampler they hold
RateOfDownsampler ==
    /\ Legal(lastCall.downsampler, lastCall.fastRate)
    /\ lastCall.current = IF lastCall.downsampler = 0
                           THEN Rat(ChosenMax, 1)
                           ELSE Rat(ChosenBase, lastCall.downsampler)

\* No legal downsampler above the chosen one gives a rate of at least the
\* samplerate: the chosen rate is the lowest realisable one not below it
LowestNotBelow(samplerate) ==
    \A other \in lastCall.downsampler + 1 ..
                  Min(ChosenLimits.maxDownsampler, IdealFloor(samplerate)) :
        ~Legal(other, lastCall.fastRate)

\* The call under study is setSamplerate(x) with x > 0 on a model with a
\* samplerate command
SamplerateSet ==
    lastCall.op = "setSamplerate" /\ usb.model # "DSO6022BE"

\* C16 as stated: after setSamplerate(x), current is not below x and is the
\* closest to x of the realisable rates not below x.
C16_ClosestNotBelow ==
    SamplerateSet =>
        /\ AtLeast(lastCall.current, lastCall.samplerate)
        /\ LowestNotBelow(lastCall.samplerate)

\* C16, amended: when a realisable rate of the chosen mode is not below x,
\* current is the lowest such rate; otherwise current is the maximum rate.
C16_ClosestOrMaximum ==
    SamplerateSet =>
        /\ RateOfDownsampler
        /\ IF lastCall.samplerate.n <= ChosenMax * lastCall.samplerate.d
           THEN /\ AtLeast(lastCall.current, lastCall.samplerate)
                /\ LowestNotBelow(lastCall.samplerate)
           ELSE lastCall.current = Rat(ChosenMax, 1)

\* On a DSO-2090 in block mode a target 3.5 times below the base rate is met
\* with the factor 2
C16_SnappedToTwo ==
    /\ SamplerateSet /\ usb.model = "DSO2090"
    /\ lastCall.recordLengthId = 1 /\ ~lastCall.fastRate
    /\ lastCall.samplerate = Rat(100000000, 7)
    /\ lastCall.downsampler = 2
    /\ lastCall.current = Rat(50000000, 2)

\* The call under study is setRecordTime(t) with t > 0 in block mode on a
\* model with a samplerate command
RecordTimeSet ==
    /\ lastCall.op = "setRecordTime" /\ usb.model # "DSO6022BE"
    /\ SingleLimits(usb.model).recordLengths[lastCall.recordLengthId + 1]
         # UINT_MAX

\* record length / t, the record length taken from the given limits
RateFilling(limits) ==
    Rat(SatMul(limits.recordLengths[lastCall.recordLengthId + 1],
               lastCall.duration.d),
        lastCall.duration.n)

\* C17 as stated: after setRecordTime(t) the record time of the active record
\* length at the current rate is at most t, and unless current is the minimum
\* rate no smaller realisable rate keeps the record time at most t.
C17_RecordTimeAtMost ==
    RecordTimeSet =>
        /\ AtLeast(lastCall.current, RateFilling(ChosenLimits))
        /\ \/ lastCall.downsampler = ChosenLimits.maxDownsampler
           \/ LowestNotBelow(RateFilling(ChosenLimits))

\* C17, amended: with R = single record length / t, current is the highest
\* rate base / divider / d, d legal, that is at most R (the record time is at
\* least t), or the minimum rate when every such rate is above R; when R is
\* above base / divider, current is max / divider for R up to it and
\* base / divider for R beyond it.
C17_RecordTimeAtLeast ==
    RecordTimeSet =>
        LET R == RateFilling(SingleLimits(usb.model))
        IN  /\ RateOfDownsampler
            /\ IF IdealFloor(R) >= 1
               THEN /\ lastCall.downsampler >= 1
                    /\ IF IdealCeiling(R) > ChosenLimits.maxDownsampler
                       THEN lastCall.downsampler = ChosenLimits.maxDownsampler
                       ELSE /\ AtMost(lastCall.current, R)
                            /\ \A other \in IdealCeiling(R) ..
                                              lastCall.downsampler - 1 :
                                   ~Legal(other, lastCall.fastRate)
               ELSE IF R.n <= ChosenMax * R.d
                    THEN lastCall.downsampler = 0
                    ELSE lastCall.downsampler = 1

\* On a DSO-2090, 10240 samples in 1 ms ask for 10.24 MS/s and get 10 MS/s:
\* the record takes 1.024 ms
C17_OneMillisecond ==
    /\ RecordTimeSet /\ usb.model = "DSO2090"
    /\ lastCall.recordLengthId = 1 /\ lastCall.duration = Rat(1, 1000)
    /\ lastCall.downsampler = 5
    /\ lastCall.current = Rat(50000000, 5)

\* One gain and one pair of setOffset calls
NextOffset ==
    \/ DoSetGain
    \/ CallSetOffset

SpecOffset == InitModels /\ [][NextOffset]_vars

\* C18: setOffset(c, r) with the offsetReal r that setOffset(c, f) returned
\* writes the same 16-bit offset value and stores the same offsetReal.
C18_Idempotent ==
    lastCall.op = "setOffset" =>
        /\ lastCall.againValue = lastCall.offsetValue
        /\ lastCall.againReal = lastCall.offsetReal

\* Calibration 100 .. 103, offset 1/2: 1.5 + 0.5 is truncated to 2, the
\* value 102 is written, offsetReal is 2/3 and differs from the offset
C18_TwoThirds ==
    /\ lastCall.op = "setOffset" /\ usb.model # "DSO6022BE"
    /\ lastCall.minimum = 100 /\ lastCall.maximum = 103
    /\ lastCall.offset = Rat(1, 2)
    /\ lastCall.offsetValue = 102 /\ lastCall.offsetReal = Rat(2, 3)
    /\ lastCall.againValue = 102
    /\ dso.controlPending[CONTROLINDEX_SETOFFSET]

\* The public control operations on a device that is not connected
NextDisconnected ==
    \/ DoSetRecordLength
    \/ DoSetSamplerate
    \/ DoSetRecordTime
    \/ DoSetChannelUsed
    \/ DoSetCoupling
    \/ DoSetGain
    \/ DoSetOffset
    \/ DoSetTriggerMode
    \/ DoSetTriggerSource
    \/ DoSetTriggerSlope
    \/ DoSetTriggerLevel
    \/ DoSetPretriggerPosition
    \/ DoForceTrigger
    \/ DoStringCommand

InitDisconnected == Init /\ ~usb.connected

SpecDisconnected == InitDisconnected /\ [][NextDisconnected]_vars

\* C20: while the transport reports not connected, no public control
\* operation changes the settings, the command buffers or a pending flag.
C20_DisconnectedUnchanged == [][~usb.connected => dso' = dso]_vars

\* The state forceTrigger leaves on a device that is not connected
C20_ForcedWhileDisconnected ==
    ~usb.connected /\ dso.commandPending[BULK_FORCETRIGGER]

\* The setters of the five logical operations of the binding table
NextBound ==
    \/ DoSetRecordLength
    \/ DoSetChannelUsed
    \/ DoSetSamplerate
    \/ DoSetTriggerSource
    \/ DoSetTriggerSlope
    \/ DoSetPretriggerPosition

SpecBound == InitModels /\ [][NextBound]_vars

\* A step of a setter whose logical operation has no command on the model
UnboundSetter ==
    \/ DoSetRecordLength /\ CommandBinding(usb.model).setRecordLength = BULK_NONE
    \/ DoSetChannelUsed /\ CommandBinding(usb.model).setChannels = BULK_NONE
    \/ DoSetSamplerate /\ CommandBinding(usb.model).setSamplerate = BULK_NONE
    \/ DoSetTriggerSource /\ CommandBinding(usb.model).setTrigger = BULK_NONE
    \/ DoSetTriggerSlope /\ CommandBinding(usb.model).setTrigger = BULK_NONE
    \/ DoSetPretriggerPosition
         /\ CommandBinding(usb.model).setPretrigger = BULK_NONE

\* C21: a setter whose logical operation has no command in the binding table
\* of the model leaves settings, command buffers and pending flags unchanged.
C21_UnboundUnchanged == [][UnboundSetter => dso' = dso]_vars

\* The 6022BE after setChannelUsed: a channel is in use
C21_ChannelUsed6022 ==
    usb.model = "DSO6022BE" /\ dso.usedChannels > 0

\* One call of stringCommand after the setters of the trigger
NextString ==
    \/ DoSetTriggerSlope
    \/ CallStringCommand

SpecString == InitModels /\ [][NextString]_vars

\* The request names a command that is not available on the model
Unavailable(request) ==
    \/ request.form = "send bulk code"
         /\ request.code \notin CommandSlots(usb.model)
    \/ request.form = "send control code"
         /\ request.code \notin ControlSlots(usb.model)

\* The request is malformed: no word, or send without its words
Malformed(request) ==
    request.form \in {"", "send", "send bulk", "send control"}

\* C22: stringCommand returns ERROR_UNSUPPORTED for a request whose opcode is
\* not a command of the model and ERROR_PARAMETER for a malformed one, and in
\* both cases writes no command buffer and sets no pending flag.
C22_RefusedUnchanged ==
    lastCall.op = "stringCommand" =>
        /\ Unavailable(lastCall.request) =>
              lastCall.error = "ERROR_UNSUPPORTED" /\ ~lastCall.changed
        /\ Malformed(lastCall.request) =>
              lastCall.error = "ERROR_PARAMETER" /\ ~lastCall.changed

\* "send bulk 0b" on a DSO-2090, whose slot BULK_BSETCHANNELS is empty, has
\* returned ERROR_NONE and left the command pending
C22_EmptySlotPending ==
    /\ lastCall.op = "stringCommand" /\ usb.model = "DSO2090"
    /\ lastCall.request = [form |-> "send bulk code",
                           code |-> BULK_BSETCHANNELS]
    /\ lastCall.error = "ERROR_NONE"
    /\ dso.commandPending[BULK_BSETCHANNELS]

\* No transport call has failed so far
Faultless == usb.faults = 0

\* The step leaves the transport within the failures of this specification
FewFaults == usb'.faults <= MaxIntervalFaults

\* The ticks under every samplerate, record length and rate mode; the
\* settings change until the first failure of the transport
NextInterval ==
    \/ Faultless /\ DoSetChannelUsed
    \/ Faultless /\ DoSetAnySamplerate
    \/ Faultless /\ DoSetRecordLength
    \/ Run /\ FewFaults

SpecInterval == InitModels /\ [][NextInterval]_vars

\* A log with a call that returned LIBUSB_ERROR_NO_DEVICE
NoDeviceIn(log) ==
    \E i \in DOMAIN log : log[i].errorCode = LIBUSB_ERROR_NO_DEVICE

\* C23: a tick ends without a further tick only after a call of it returned
\* NO_DEVICE; every other tick goes through updateInterval and singleShot,
\* once, and the delay it schedules is between 10 and 1000 ms.
C23_OneTickAhead ==
    [][/\ (tick.pc # "stopped" /\ tick'.pc = "stopped")
            => NoDeviceIn(tick'.log)
       /\ tick.pc = "resched"
            => tick'.pc = "idle" /\ dso'.cycleTime \in 10 .. 1000
       /\ (tick.pc # "idle" /\ tick'.pc = "idle") => tick.pc = "resched"
      ]_vars

\* A 6022BE at one sample in 1000 s in block mode: the tick that ended has
\* scheduled the next one after 1000 ms
C23_SlowestRate ==
    /\ usb.model = "DSO6022BE" /\ tick.pc = "idle"
    /\ dso.current = Rat(1, 1000) /\ RecordLength(dso) # UINT_MAX
    /\ dso.cycleTime = 1000

\* The frames under changing settings, and a consumer of the result
NextSamples ==
    \/ Outside /\ DoSetRecordLength
    \/ Outside /\ DoSetChannelUsed
    \/ lastCall = NoCall /\ DoSetSamplerate
    \/ GetSamplesRead
    \/ GetSamplesLock
    \/ GetSamplesHeader
    \/ GetSamplesData
    \/ GetSamplesUnlock
    \/ GetSamplesEmit
    \/ ReaderLock
    \/ ReaderUnlock

SpecSamples == InitModels /\ [][NextSamples]_vars

\* A frame is decoded and about to be published
Published == lastCall.op = "getSamples" /\ lastCall.pc = "unlocked"

\* C24: whenever a frame is published, result.append is true exactly when the
\* active record length is the roll mode sentinel, in the fast rate layout
\* and in the normal layout alike.
C24_AppendIffRoll ==
    Published => (lastCall.result.append <=> RecordLength(dso) = UINT_MAX)

\* A roll mode frame is published, and it appends
C24_RollFrame ==
    Published /\ RecordLength(dso) = UINT_MAX /\ lastCall.result.append

\* A block mode frame of the fast rate layout is published
C24_FastFrame ==
    Published /\ dso.limitsMulti /\ ~lastCall.result.append

\* C25: on the 6022BE a processed frame of B bytes yields B/2 - 0x410 - 0x3F0
\* samples for each used channel, and sample 0 of channel c is raw byte
\* 2 * 0x410 + c: the decoding comes to its end, the number of samples is
\* that natural number, and no position is taken from elsewhere.
C25_SamplesOf6022 ==
    (usb.model = "DSO6022BE" /\ lastCall.op = "getSamples") =>
        /\ lastCall.pc # "aborted"
        /\ Published =>
              \A c \in Channels :
                 dso.used[c] =>
                    /\ lastCall.result.size[c] >= 0
                    /\ lastCall.result.size[c] =
                          lastCall.bytes \div 2
                            - DROP_DSO6022_HEAD - DROP_DSO6022_TAIL
                    /\ lastCall.result.first[c] = 2 * DROP_DSO6022_HEAD + c

\* A full frame of the 6022BE is published with a channel in use
C25_FullFrame ==
    /\ Published /\ usb.model = "DSO6022BE"
    /\ lastCall.bytes = 20480
    /\ \E c \in Channels : dso.used[c] /\ lastCall.result.size[c] = 8192

\* The samples a frame of the bytes read holds for one used channel
FrameSamples(d, bytes) ==
    IF d.limitsMulti THEN TotalSampleCount(bytes)
                     ELSE SampleCountNormal(TotalSampleCount(bytes))

\* C26: after every processed block mode frame, whatever the sizes of the
\* frames before it, the data of each used channel has the length of the
\* per-channel sample count of the bytes the read returned, and the data of
\* each unused channel is empty.
C26_ExactlyThisFrame ==
    (Published /\ RecordLength(dso) # UINT_MAX) =>
        \A c \in Channels :
           lastCall.result.size[c] =
              IF dso.used[c] THEN FrameSamples(dso, lastCall.bytes) ELSE 0

\* A short frame of the normal layout is published after a longer one, and
\* the data of a used channel still has the length of the longer one
C26_LongerThanFrame ==
    /\ Published /\ RecordLength(dso) # UINT_MAX
    /\ usb.model # "DSO6022BE" /\ ~dso.limitsMulti
    /\ \E c \in Channels :
          /\ dso.used[c]
          /\ lastCall.result.size[c] > FrameSamples(dso, lastCall.bytes)

\* C27: every modification of the shared result is made by getSamples while
\* it holds the write lock of the result, a consumer that holds the read lock
\* never sees a frame that is decoded in part, and the write lock is released
\* before samplesAvailable is emitted.
C27_WriteLocked ==
    [][lastCall.op = "getSamples" =>
         /\ lastCall'.result # lastCall.result =>
               lastCall.lock = "write" /\ lastCall'.lock = "write"
         /\ lastCall.lock = "read" =>
               /\ lastCall.pc \notin {"locked", "header", "decoded"}
               /\ lastCall'.result = lastCall.result
         /\ (lastCall.pc = "unlocked" /\ lastCall'.pc = "idle") =>
               lastCall.lock # "write"]_vars

\* The data of a frame are in the result and the write lock is still held
C27_DecodedLocked ==
    /\ lastCall.op = "getSamples" /\ lastCall.pc = "decoded"
    /\ lastCall.lock = "write"
    /\ \E c \in Channels : lastCall.result.size[c] > 0

\* A consumer reads a decoded frame before samplesAvailable is emitted
C27_ReadBeforeEmit == Published /\ lastCall.lock = "read"

\* The gain of every model, set once with its result kept and then at will
NextGain ==
    \/ DoSetGain
    \/ CallSetGain

SpecGain == Init /\ [][NextGain]_vars

\* The index setGain stored is the smallest one whose step is at least the
\* gain asked for, or the last one when no step is; the relays of the channel
\* follow it
LowestStepStored ==
    (lastCall.op = "setGain" /\ lastCall.accepted) =>
        LET steps == GainSteps(usb.model)
            i     == lastCall.stored
            large == {j \in 0 .. Len(steps) - 1 : steps[j + 1] >= lastCall.gain}
        IN  /\ i \in 0 .. Len(steps) - 1
            /\ large # {} => i \in large /\ \A j \in large : i <= j
            /\ large = {} => i = Len(steps) - 1
            /\ usb.model # "DSO6022BE" =>
                  lastCall.relays =
                     {[below1V |-> i < 3, below100mV |-> i < 6]}

\* voltage[c].gain < gainSteps.len()
GainInTable == \A c \in Channels : dso.gain[c] < Len(GainSteps(usb.model))

NextStop ==
    \/ StartSampling
    \/ StopSampling
    \/ DoSetRecordLength
    \/ Run

SpecStop == InitRun /\ [][NextStop]_vars

\* The commands of the first three roll states
RollStartCommands ==
    {BULK_STARTSAMPLING, BULK_ENABLETRIGGER, BULK_FORCETRIGGER}

\* C29: in roll mode, in a tick where sampling is false, the state machine
\* leaves rollState where it is, whichever roll state that is, and sends
\* none of BULK_STARTSAMPLING, BULK_ENABLETRIGGER and BULK_FORCETRIGGER.
C29_StoppedRollStays ==
    [][(/\ tick.pc = "machine" /\ tick'.pc # "machine"
        /\ RecordLength(dso) = UINT_MAX
        /\ ~dso.sampling)
       => /\ dso'.rollState = dso.rollState
          /\ \A i \in DOMAIN NewCalls :
                ~(/\ NewCalls[i].call = "bulkCommand"
                  /\ NewCalls[i].index \in RollStartCommands)]_vars

\* Sampling was stopped after the start command of a roll cycle, and the
\* tick has sent BULK_ENABLETRIGGER and moved on to the force trigger state
C29_EnabledWhileStopped ==
    /\ tick.pc = "resched" /\ tick.roll /\ ~dso.sampling
    /\ dso.rollState = ROLL_FORCETRIGGER
    /\ \E i \in MachineCalls :
          /\ tick.log[i].call = "bulkCommand"
          /\ tick.log[i].index = BULK_ENABLETRIGGER
          /\ tick.log[i].errorCode >= 0

\* The capture states that report a frame
ReadyStates == {CAPTURE_READY, CAPTURE_READY2250, CAPTURE_READY5200}

\* The BULK_STARTSAMPLING commands the step added to the log of the tick
StartsSent ==
    {i \in DOMAIN NewCalls : /\ NewCalls[i].call = "bulkCommand"
                             /\ NewCalls[i].index = BULK_STARTSAMPLING}

\* C30: in block mode, when the device reports READY, READY2250 or READY5200
\* and sampling is still true after the single shot check, the same tick
\* sends BULK_STARTSAMPLING and, if that write succeeds, sets
\* _samplingStarted, clears cycleCounter and notes the trigger mode in
\* lastTriggerMode; when sampling is false it sends no BULK_STARTSAMPLING.
C30_ReadyRearms ==
    [][(/\ tick.pc = "machine" /\ tick'.pc # "machine"
        /\ RecordLength(dso) # UINT_MAX
        /\ dso'.captureState \in ReadyStates)
       => IF dso'.sampling
          THEN /\ StartsSent = {Len(NewCalls)}
               /\ NewCalls[Len(NewCalls)].errorCode >= 0 =>
                     /\ dso'.samplingStarted
                     /\ dso'.cycleCounter = 0
                     /\ dso'.lastTriggerMode = dso.triggerMode
               /\ NewCalls[Len(NewCalls)].errorCode < 0 =>
                     ~dso'.samplingStarted
          ELSE StartsSent = {}]_vars

\* A frame was read in block mode and the same tick has started the next
\* capture
C30_Rearmed ==
    /\ tick.pc = "resched" /\ ~tick.roll
    /\ dso.captureState \in ReadyStates
    /\ dso.sampling /\ dso.samplingStarted /\ dso.cycleCounter = 0
    /\ dso.lastTriggerMode = dso.triggerMode
    /\ \E i \in MachineCalls : tick.log[i].call = "bulkReadMulti"
    /\ tick.log[Len(tick.log)].index = BULK_STARTSAMPLING
    /\ tick.log[Len(tick.log)].errorCode >= 0

\* The ticks of a device that never triggers, at a fast and at a slow rate
RunWaiting ==
    \/ TickStart
    \/ FlushBulk
    \/ BulkDone
    \/ FlushControl
    \/ ControlDone
    \/ MachineWaiting
    \/ Reschedule

\* The settings are made before the first capture is started
Unstarted == Faultless /\ ~dso.samplingStarted

NextWaiting ==
    \/ Unstarted /\ StartSampling
    \/ Unstarted /\ DoSetSamplerate
    \/ Unstarted /\ DoSetTriggerMode
    \/ RunWaiting /\ FewFaults

InitWaiting == InitRun /\ usb.model = "DSO2250"

SpecWaiting == InitWaiting /\ [][NextWaiting]_vars

\* The state machine step of a tick that reads CAPTURE_WAITING with a capture
\* started under the trigger mode that is still set, and with no call failing
WaitingStep ==
    /\ tick.pc = "machine" /\ tick'.pc # "machine"
    /\ RecordLength(dso) # UINT_MAX
    /\ dso'.captureState = CAPTURE_WAITING
    /\ dso.samplingStarted /\ dso.lastTriggerMode = dso.triggerMode
    /\ Failures(NewCalls) = 0

\* The tick has waited, or it has started the next capture
WaitedOrRearmed(wait) ==
    IF wait THEN StartsSent = {} /\ dso'.cycleCounter = dso.cycleCounter + 1
            ELSE StartsSent # {} /\ dso'.cycleCounter = 0

Soon == dso'.cycleCounter <= MaxForceTicks

\* The ticks of a device that triggers late or never, with forceTrigger()
NextForce ==
    \/ Unstarted /\ StartSampling
    \/ Unstarted /\ DoSetTriggerMode
    \/ Faultless /\ DoForceTrigger
    \/ (RunWaiting \/ Machine) /\ FewFaults /\ Soon

SpecForce == InitWaiting /\ [][NextForce]_vars

\* The calls the step added to the log that carry the bulk command code
SentNow(phase, code) ==
    {i \in DOMAIN NewCalls : /\ NewCalls[i].phase = phase
                             /\ NewCalls[i].call = "bulkCommand"
                             /\ NewCalls[i].index = code}

\* The step belongs to a tick in block mode
BlockStep == tick.pc # "idle" /\ RecordLength(dso) # UINT_MAX

\* C32: in block mode the state machine sends BULK_FORCETRIGGER only in a
\* tick where the trigger mode is AUTO, a capture has been started and the
\* incremented cycleCounter is at least startCycle + 8; in the other modes
\* BULK_FORCETRIGGER is transmitted only by the flush of a pending flag, which
\* only forceTrigger() raises; BULK_ENABLETRIGGER is sent in the tick where
\* cycleCounter becomes startCycle, which is at most once for a started
\* capture, since only the start of a capture lowers cycleCounter or changes
\* startCycle.
C32_ForcedOnlyInAuto ==
    [][/\ (BlockStep /\ SentNow("machine", BULK_FORCETRIGGER) # {}) =>
             /\ dso.triggerMode = "TRIGGERMODE_AUTO"
             /\ dso.samplingStarted
             /\ dso.cycleCounter + 1 >= dso.startCycle + 8
       /\ (BlockStep /\ dso.triggerMode # "TRIGGERMODE_AUTO") =>
             \A i \in DOMAIN NewCalls :
                (NewCalls[i].call = "bulkCommand"
                 /\ NewCalls[i].index = BULK_FORCETRIGGER) =>
                    /\ NewCalls[i].phase = "bulk"
                    /\ dso.commandPending[BULK_FORCETRIGGER]
       /\ (dso'.commandPending[BULK_FORCETRIGGER]
             /\ ~dso.commandPending[BULK_FORCETRIGGER]) =>
             dso' = ForceTrigger(dso) /\ tick' = tick
       /\ (BlockStep /\ SentNow("machine", BULK_ENABLETRIGGER) # {}) =>
             /\ Cardinality(SentNow("machine", BULK_ENABLETRIGGER)) = 1
             /\ dso.samplingStarted
             /\ dso.cycleCounter + 1 = dso.startCycle
       /\ (dso'.cycleCounter < dso.cycleCounter
             \/ dso'.startCycle # dso.startCycle) =>
             /\ dso'.cycleCounter = 0
             /\ \E i \in StartsSent : NewCalls[i].errorCode >= 0]_vars

\* In AUTO mode the device has waited eight ticks past startCycle and the
\* state machine has forced the trigger
C32_Forced ==
    /\ tick.pc = "resched" /\ ~tick.roll
    /\ dso.triggerMode = "TRIGGERMODE_AUTO" /\ dso.samplingStarted
    /\ dso.cycleCounter >= dso.startCycle + 8
    /\ \E i \in MachineCalls :
          /\ tick.log[i].call = "bulkCommand"
          /\ tick.log[i].index = BULK_FORCETRIGGER
          /\ tick.log[i].errorCode >= 0

\* In NORMAL mode the flush has transmitted the BULK_FORCETRIGGER that
\* forceTrigger() marked
C32_ForcedByCall ==
    /\ dso.triggerMode = "TRIGGERMODE_NORMAL"
    /\ \E i \in DOMAIN tick.log :
          /\ tick.log[i].phase = "bulk"
          /\ tick.log[i].index = BULK_FORCETRIGGER
          /\ tick.log[i].errorCode >= 0

\* setPretriggerPosition called once, in microseconds: the start of the
\* record, and positions inside the records of the fast and the slow rates
PositionCallInputs == {0, 50, 100, 5000}

\* unsigned int positionSamples = position * settings.samplerate.current,
\* halved at the fast rate; current is a whole number of samples per
\* microsecond, or the position is 0
PositionSamples(d, position) ==
    LET samples == (position * (d.current.n \div 1000000)) \div d.current.d
    IN  IF d.limitsMulti THEN samples \div HANTEK_CHANNELS ELSE samples

\* (unsigned short int) value
UnsignedShort(value) == value % 65536

\* The trigger position words of the command of the model; an unsigned int
\* below 0 stands for the value 2^32 higher
TriggerWords(model, recordLength, positionSamples) ==
    CASE CommandBinding(model).setPretrigger = BULK_SETTRIGGERANDSAMPLERATE ->
           [top  |-> 524287,
            pre  |-> IF recordLength = UINT_MAX THEN 1
                     ELSE 524287 - recordLength + positionSamples,
            post |-> 0]
      [] CommandBinding(model).setPretrigger = BULK_FSETBUFFER ->
           [top  |-> 524287,
            pre  |-> 524287 - recordLength + positionSamples,
            post |-> 524287 - positionSamples]
      [] CommandBinding(model).setPretrigger = BULK_ESETTRIGGERORSAMPLERATE ->
           [top  |-> 65535,
            pre  |-> UnsignedShort(65535 - recordLength + positionSamples),
            post |-> UnsignedShort(65535 - positionSamples)]

\* setPretriggerPosition(position) on a model that has the command, with
\* the words it wrote
CallSetPretriggerPosition ==
    /\ lastCall = NoCall
    /\ usb.connected /\ PretriggerWrites(usb.model) # BULK_NONE
    /\ \E position \in PositionCallInputs :
          /\ position = 0 \/ dso.current.n % 1000000 = 0
          /\ dso' = SetPretriggerPosition(dso, position)
          /\ lastCall' =
                [op |-> "setPretriggerPosition",
                 position |-> position,
                 recordLength |-> RecordLength(dso),
                 positionSamples |-> PositionSamples(dso, position),
                 words |-> TriggerWords(usb.model, RecordLength(dso),
                                        PositionSamples(dso, position))]
    /\ UNCHANGED <<usb, tick>>

\* The trigger position at every record length and in both rate modes
NextPosition ==
    \/ DoSetRecordLength
    \/ DoSetSamplerate
    \/ CallSetPretriggerPosition

SpecPosition == InitModels /\ [][NextPosition]_vars

\* C33: at every finite record length and for every position inside the
\* record, the trigger position words setPretriggerPosition writes are the
\* values top - recordLength + positionSamples and top - positionSamples,
\* with top = 0x7FFFF (0xFFFF on the 5200), and lie in 0 .. top: no word has
\* wrapped around.
C33_WordsInRange ==
    (/\ lastCall.op = "setPretriggerPosition"
     /\ lastCall.recordLength # UINT_MAX
     /\ lastCall.positionSamples \in 0 .. lastCall.recordLength) =>
        LET w == lastCall.words
        IN  /\ w.pre = w.top - lastCall.recordLength + lastCall.positionSamples
            /\ w.pre \in 0 .. w.top
            /\ CommandBinding(usb.model).setPretrigger
                  # BULK_SETTRIGGERANDSAMPLERATE =>
                  /\ w.post = w.top - lastCall.positionSamples
                  /\ w.post \in 0 .. w.top

\* A position inside a record of the 5200 gives two words in range
C33_InRange5200 ==
    /\ lastCall.op = "setPretriggerPosition" /\ usb.model = "DSO5200"
    /\ lastCall.positionSamples \in 1 .. lastCall.recordLength
    /\ lastCall.words.pre \in 0 .. 65535 /\ lastCall.words.post \in 0 .. 65535

\* updateSamplerate: the argument of setFastRate of the command of the model,
\* setFastRate(false /*fastRate*/) for BULK_SETTRIGGERANDSAMPLERATE
CommandFastRate(model, fastRate) ==
    IF CommandBinding(model).setSamplerate = BULK_SETTRIGGERANDSAMPLERATE
    THEN FALSE
    ELSE fastRate

\* setSamplerate(samplerate) on a model with a samplerate command, with the
\* fastRate it passed to updateSamplerate, the fast rate flag updateSamplerate
\* stored in the command and the limits it left active
CallSamplerateMode ==
    /\ lastCall = NoCall
    /\ usb.connected /\ SamplerateWrites(usb.model) # {}
    /\ \E samplerate \in SamplerateInputs :
          LET fastRate == SamplerateFastRate(dso, samplerate)
          IN  /\ dso' = SetSamplerate(dso, samplerate)
              /\ lastCall' =
                    [op |-> "samplerateMode",
                     fastRate |-> fastRate,
                     commandFastRate |-> CommandFastRate(usb.model, fastRate),
                     limitsMulti |-> dso'.limitsMulti]
    /\ UNCHANGED <<usb, tick>>

\* The rate mode at every record length and number of channels
NextMode ==
    \/ DoSetRecordLength
    \/ DoSetChannelUsed
    \/ CallSamplerateMode

SpecMode == InitModels /\ [][NextMode]_vars

\* C34: after every successful updateSamplerate(d, fastRate), on every model
\* family, the fast rate flag stored in the command equals fastRate, and the
\* multi limits are active exactly when fastRate is true.
C34_FlagIsFastRate ==
    lastCall.op = "samplerateMode" =>
        /\ lastCall.commandFastRate = lastCall.fastRate
        /\ lastCall.limitsMulti = lastCall.fastRate

\* The fast rate of a 5200 is stored in its command
C34_Fast5200 ==
    /\ lastCall.op = "samplerateMode" /\ usb.model = "DSO5200"
    /\ lastCall.fastRate /\ lastCall.commandFastRate /\ lastCall.limitsMulti

----------------------------------------------------------------------------
(* The retry of pending commands by the ticks of run() *)

\* QTimer::singleShot at the end of run() calls run() again, and each
\* statement of a tick that has begun is executed: the steps of run() are
\* taken as long as the loop has not returned after NO_DEVICE.  The transport
\* fails at most MaxFaults times.
SpecRetry == InitRun /\ [][NextFlush]_vars /\ WF_vars(Run)

\* The loop has returned after LIBUSB_ERROR_NO_DEVICE
LoopStopped == tick.pc = "stopped"

\* The step made a successful write of the command in the given loop
WrittenNow(phase, index) ==
    \E i \in DOMAIN NewCalls :
       /\ NewCalls[i].phase = phase
       /\ NewCalls[i].index = index
       /\ NewCalls[i].errorCode = LIBUSB_SUCCESS

\* A pending flag is set
SomePending ==
    \/ \E c \in BulkCodes : dso.commandPending[c]
    \/ \E i \in ControlIndices : dso.controlPending[i]

\* The step is one of run()
RunStep == tick.pc # "idle"

\* C35: while the loop ticks and the transport's writes eventually succeed,
\* the commands whose pending flags are set are eventually transmitted and
\* their flags cleared, unless the loop returned after NO_DEVICE: no step of
\* run() sets a pending flag, so that, the setters aside, each flag is
\* cleared by the time none is set; and no step clears a pending flag without
\* a successful write of that command in that step.
C35_RetriedUntilSent ==
    /\ SomePending ~> (~SomePending \/ LoopStopped)
    /\ [][/\ \A c \in BulkCodes :
               /\ (dso.commandPending[c] /\ ~dso'.commandPending[c])
                     => WrittenNow("bulk", c)
               /\ (RunStep /\ dso'.commandPending[c]) => dso.commandPending[c]
           /\ \A i \in ControlIndices :
               /\ (dso.controlPending[i] /\ ~dso'.controlPending[i])
                     => WrittenNow("control", i)
               /\ (RunStep /\ dso'.controlPending[i])
                     => dso.controlPending[i]]_vars

\* A tick cleared the flag of a command with a successful write, after the
\* transport had failed before in the tick, and the loop goes on
C35_SentAfterFailure ==
    /\ tick.pc \in {"bulk", "control", "machine"}
    /\ \E i, j \in DOMAIN tick.log :
          /\ i < j
          /\ tick.log[i].errorCode = LIBUSB_ERROR_IO
          /\ tick.log[j].errorCode = LIBUSB_SUCCESS
          /\ tick.log[j].phase = "control"
          /\ ~dso.controlPending[tick.log[j].index]

----------------------------------------------------------------------------
(* The bulk commands of the 6022BE *)

\* The bulk commands the tick has issued to the transport so far
BulkIssued ==
    {tick.log[i].index :
        i \in {j \in DOMAIN tick.log : tick.log[j].call = "bulkCommand"}}

\* C36: on the 6022BE no tick of run() issues a bulk command to the
\* transport, whether sampling is true or false, forceTrigger() and
\* stringCommand() not being called.
C36_NoBulkOn6022 ==
    usb.model = "DSO6022BE" => BulkIssued = {}

----------------------------------------------------------------------------
(* The count of the channels in use *)

\* setChannelUsed(channel, used), with the error code it returned
CallSetChannelUsed ==
    /\ lastCall = NoCall
    /\ Idle
    /\ \E channel \in ChannelInputs, used \in BOOLEAN :
          /\ dso' = SetChannelUsed(dso, channel, used)
          /\ lastCall' =
                [op |-> "setChannelUsed", channel |-> channel, used |-> used,
                 errorCode |->
                    IF ~usb.connected THEN "ERROR_CONNECTION"
                    ELSE IF channel >= HANTEK_CHANNELS THEN "ERROR_PARAMETER"
                    ELSE "ERROR_NONE"]
    /\ UNCHANGED <<usb, tick>>

\* Sequences of setChannelUsed calls on every model, connected or not
NextUsed ==
    \/ DoSetChannelUsed
    \/ CallSetChannelUsed

SpecUsed == Init /\ [][NextUsed]_vars

\* C37: in every state reached by setChannelUsed calls, those rejected for
\* the channel index or the disconnected transport included,
\* settings.usedChannels is the number of channels whose used flag is true.
C37_UsedChannelsCounted ==
    dso.usedChannels = (IF dso.used[0] THEN 1 ELSE 0)
                     + (IF dso.used[1] THEN 1 ELSE 0)

\* Both channels are in use and the last call was rejected for its channel
C37_RejectedWithBothUsed ==
    /\ lastCall.op = "setChannelUsed"
    /\ lastCall.errorCode = "ERROR_PARAMETER"
    /\ dso.used[0] /\ dso.used[1]

----------------------------------------------------------------------------
(* The end of a single-shot acquisition *)

\* The step of the state machine called stopSampling()
StoppedByRun ==
    /\ tick.pc = "machine"
    /\ \/ dso'.samplingStopped # dso.samplingStopped
       \/ dso.sampling /\ ~dso'.sampling

\* The step read a frame from the transport without an error
FrameRead ==
    \E i \in DOMAIN NewCalls :
       /\ NewCalls[i].call = "bulkReadMulti"
       /\ NewCalls[i].errorCode = LIBUSB_SUCCESS

\* C38: in single trigger mode the state machine switches sampling off only
\* in a tick that read a frame successfully; a failed sample read does not
\* end the acquisition.
C38_StoppedOnlyWithFrame ==
    [][(dso.triggerMode = "TRIGGERMODE_SINGLE" /\ StoppedByRun)
          => FrameRead]_vars

----------------------------------------------------------------------------
(* The current samplerate after the setters *)

\* A call of setSamplerate or setRecordTime has succeeded
RateSolved == lastCall.op = "setter" /\ lastCall.solved

\* The setter has returned; solves tells whether it was a setSamplerate or
\* setRecordTime that did not return 0.0, accepted whether it returned
\* without an error
SetterReturned(name, solves, accepted) ==
    /\ Idle
    /\ lastCall.op \in {"none", "setter"}
    /\ lastCall' = [op |-> "setter", name |-> name,
                    solved |-> RateSolved \/ solves,
                    accepted |-> accepted,
                    target |-> dso.target,
                    divider |-> Divider(dso)]
    /\ UNCHANGED <<usb, tick>>

CallSolveSamplerate ==
    /\ \E samplerate \in SamplerateInputs :
          dso' = SetSamplerate(dso, samplerate)
    /\ SetterReturned("setSamplerate", usb.connected, usb.connected)

CallSolveRecordTime ==
    /\ \E duration \in DurationInputs : dso' = SetRecordTime(dso, duration)
    /\ SetterReturned("setRecordTime", usb.connected, usb.connected)

CallSolveRecordLength ==
    \E index \in RecordLengthInputs :
       /\ dso' = SetRecordLength(dso, index)
       /\ SetterReturned("setRecordLength", FALSE,
                         usb.connected /\ RecordLengthAccepted(dso, index))

CallSolveChannelUsed ==
    \E channel \in ChannelInputs, used \in BOOLEAN :
       /\ dso' = SetChannelUsed(dso, channel, used)
       /\ SetterReturned("setChannelUsed", FALSE,
                         usb.connected /\ channel < HANTEK_CHANNELS)

NextSolved ==
    \/ CallSolveSamplerate
    \/ CallSolveRecordTime
    \/ CallSolveRecordLength
    \/ CallSolveChannelUsed

SpecSolved == InitModels /\ [][NextSolved]_vars

\* The rate implied by the stored downsampler, record length and limits
ImpliedRate ==
    LET limits  == IF dso.limitsMulti THEN MultiLimits(usb.model)
                   ELSE SingleLimits(usb.model)
        divider == BufferDividers(usb.model)[dso.recordLengthId + 1]
    IN  IF dso.downsampler > 0
        THEN Rat(limits.base \div divider, dso.downsampler)
        ELSE Rat(limits.max \div divider, 1)

\* C39: on the models other than the 6022BE, after the first successful
\* setSamplerate or setRecordTime and after every later setRecordLength,
\* setChannelUsed, setSamplerate or setRecordTime, settings.samplerate.current
\* is base / bufferDivider / downsampler of the active limits, or
\* max / bufferDivider when the downsampler is 0.
C39_CurrentIsImplied ==
    (usb.model # "DSO6022BE" /\ RateSolved) => dso.current = ImpliedRate

\* setRecordLength changed the buffer divider after a rate had been set
C39_DividerChanged ==
    /\ usb.model # "DSO6022BE"
    /\ RateSolved
    /\ lastCall.name = "setRecordLength"
    /\ lastCall.divider # Divider(dso)

----------------------------------------------------------------------------
(* The targets kept by setRecordLength *)

\* C40: setRecordLength leaves settings.samplerate.target (samplerate,
\* duration and samplerateSet) as it was before the call, whether or not the
\* buffer divider changed; and the state an accepted call leaves is the one
\* setSamplerate() solves for the stored target when samplerateSet is true,
\* the one setRecordTime() solves otherwise.
C40_TargetsKept ==
    lastCall.op = "setter" /\ lastCall.name = "setRecordLength" =>
       /\ dso.target = lastCall.target
       /\ lastCall.accepted =>
             dso = IF lastCall.target.samplerateSet
                   THEN SetSamplerate(dso, Zero)
                   ELSE SetRecordTime(dso, Zero)

\* An accepted setRecordLength changed the buffer divider, the rate having
\* been set last by setSamplerate; the record time solves to another state
C40_ResolvedForSamplerate ==
    /\ lastCall.op = "setter" /\ lastCall.name = "setRecordLength"
    /\ lastCall.accepted
    /\ lastCall.divider # Divider(dso)
    /\ lastCall.target.samplerateSet
    /\ dso # SetRecordTime(dso, Zero)

\* An accepted setRecordLength kept the buffer divider, the rate having been
\* set last by setRecordTime
C40_ResolvedForRecordTime ==
    /\ lastCall.op = "setter" /\ lastCall.name = "setRecordLength"
    /\ lastCall.accepted
    /\ lastCall.divider = Divider(dso)
    /\ ~lastCall.target.samplerateSet
    /\ lastCall.target # TargetDefault

====
